---- MODULE Spec2Model ----
(***************************************************************************)
(* A model of the logjam agent for Go: the Request aggregator (Log and the *)
(* other mutators, Finish), the agent's transport (sendMessage, sendPing,  *)
(* Shutdown, setupSocket) and the middleware's ServeHTTP.                  *)
(*                                                                         *)
(* Strings are TLA+ strings; a log line is the pair <<severity, message>>  *)
(* (the time stamp of a line is left out: no modelled code reads it).      *)
(***************************************************************************)
EXTENDS Integers, Sequences, FiniteSets, TLC

VARIABLES
  a,        \* the Agent: options, socket, sequence, what its Logger printed
  r,        \* the Request: the fields of the struct
  outcome,  \* how the last call on the Request ended: "none", "ok", "panic"
  hist,     \* history of the calls made so far (what the claims speak about)
  wire,     \* the frame sets handed to the socket, in order
  now,      \* the wall clock, in tenths of a millisecond
  resp,     \* the http.ResponseWriter given to ChangeAction: its header map
  pc,       \* where each goroutine is in the call it is making
  local,    \* each goroutine's call and its local variables
  mutex,    \* the Request's mutex: the goroutine holding it, or "free"
  amutex,   \* the Agent's mutex: the goroutine holding it, or "free"
  lin,      \* the Request as the calls leave it when run one after the
            \* other, in the order in which they took the mutex
  added,    \* the values the calls were asked to add, per counter and timer
  returned  \* what the function applied last returned (the specifications
            \* of the pure functions)

vars ==
  <<a, r, outcome, hist, wire, now, resp, pc, local, mutex, amutex, lin, added,
    returned>>
concVars == <<pc, local, mutex, amutex, lin, added, returned>>

----------------------------------------------------------------------------
(* Bounds of the model *)

\* the larger of the two configured MaxLineLength values
LineLength == 24
\* a configured MaxLineLength smaller than the truncation marker
SmallLineLength == 4
\* number of calls made on one Request
MaxCalls == 4
\* the number of calls made on the agent
MaxAgentCalls == 4
\* the number of HTTP requests served
MaxRequests == 2
\* the number of calls a handler makes on its Request
MaxHandlerCalls == 2
\* the number of calls a handler makes on the wrapped writer
MaxWriterCalls == 3

----------------------------------------------------------------------------
(* Constants of the program *)

DEBUG == 0
INFO == 1
WARN == 2
ERROR == 3
FATAL == 4

\* the defaults of MaxLineLength and MaxBytesAllLines, which are also the
\* constants maxLineLength and maxBytesAllLines of the middleware's revision
maxLineLengthDefault == 2048
maxBytesAllLinesDefault == 1048576

lineTruncated == " ... [LINE TRUNCATED]"
linesTruncated == "... [LINES DROPPED]"

\* the text raw log lines are cut from; it holds no "[", so no raw line
\* equals one of the two markers
Alphabet == "abcdefghijklmnopqrstuvwxyz0123456789ABCDEFGHIJKLMNOPQRSTUVWXYZ"
RawLine(n) == SubSeq(Alphabet, 1, n)

----------------------------------------------------------------------------
(* formatLine: the stored line, or a panic when the slice bound is negative *)

formatLine(severity, message, maxLineLength) ==
  IF Len(message) > maxLineLength
  THEN IF maxLineLength - Len(lineTruncated) < 0
       THEN [panic |-> TRUE, line |-> <<>>]
       ELSE [panic |-> FALSE,
             line |-> <<severity,
                        SubSeq(message, 1, maxLineLength - Len(lineTruncated))
                          \o lineTruncated>>]
  ELSE [panic |-> FALSE, line |-> <<severity, message>>]

----------------------------------------------------------------------------
(* The Agent after NewAgent, and a Request after Agent.NewRequest *)

\* NewAgent: the options as given (MaxLineLength and MaxBytesAllLines set),
\* no socket, sequence 0; Logger counts the lines printed to the agent's Logger
NewAgent(logLevel, maxLineLength, maxBytesAllLines) ==
  [AppName |-> "app",
   EnvName |-> "env",
   LogLevel |-> logLevel,
   MaxLineLength |-> maxLineLength,
   MaxBytesAllLines |-> maxBytesAllLines,
   stream |-> "app" \o "-" \o "env",
   topic |-> "logs." \o "app" \o "." \o "env",
   socket |-> "nil",
   sequence |-> 0,
   Logger |-> 0]

EmptyMap == [k \in {} |-> 0]

\* Agent.NewRequest at time t, with the UUID that generateUUID returned
NewRequest(ag, action, uuid, t) ==
  [action |-> action,
   durations |-> EmptyMap,
   counts |-> EmptyMap,
   fields |-> EmptyMap,
   logLines |-> <<>>,
   logLinesBytesCount |-> 0,
   exceptions |-> {},
   severity |-> INFO,
   startTime |-> t,
   endTime |-> 0,
   uuid |-> uuid,
   traceID |-> uuid,
   id |-> ag.AppName \o "-" \o ag.EnvName \o "-" \o uuid]

----------------------------------------------------------------------------
(* Request.Log *)

\* mutant of ClampSeverity: the upper clamping branch is missing
ClampSeverityLowerOnly(severity) ==
  IF severity < DEBUG THEN DEBUG ELSE severity

\* the severity after the two clamping branches
ClampSeverity(severity) ==
  IF severity > FATAL THEN FATAL
  ELSE IF severity < DEBUG THEN DEBUG
  ELSE severity

\* the severity watermark after a call with the (clamped) severity
RaiseSeverity(current, severity) ==
  IF current < severity THEN severity ELSE current

\* the second early return of Log: the byte budget is used up
BudgetExhausted(req, ag) == req.logLinesBytesCount > ag.MaxBytesAllLines

\* whether the line itself is appended (and not the marker)
LineFits(bytesCount, ag) == bytesCount < ag.MaxBytesAllLines

\* the two early returns of Log
LogReturnsEarly(req, ag, severity) ==
  ag.LogLevel > severity \/ BudgetExhausted(req, ag)

\* r.logLinesBytesCount += lineLen
LogCount(req, line) ==
  [req EXCEPT !.logLinesBytesCount = @ + Len(line)]

\* the append of the line, or of the marker: the Request afterwards and
\* whether formatLine panicked
LogAppend(req, ag, severity, line) ==
  LET f == IF LineFits(req.logLinesBytesCount, ag)
           THEN formatLine(severity, line, ag.MaxLineLength)
           ELSE formatLine(severity, linesTruncated, ag.MaxLineLength)
  IN IF f.panic
     THEN [req |-> req, panic |-> TRUE]
     ELSE [req |-> [req EXCEPT !.logLines = Append(@, f.line)],
           panic |-> FALSE]

\* mutant of LogBody: the threshold is tested before the watermark is raised
LogBodyLevelFirst(req, ag, rawSeverity, line) ==
  LET severity == ClampSeverity(rawSeverity)
      r1 == [req EXCEPT !.severity = RaiseSeverity(@, severity)]
  IN IF ag.LogLevel > severity THEN [req |-> req, panic |-> FALSE]
     ELSE IF LogReturnsEarly(r1, ag, severity)
       THEN [req |-> r1, panic |-> FALSE]
     ELSE LogAppend(LogCount(r1, line), ag, severity, line)

\* The whole body of Log on the Request req of agent ag: the Request
\* afterwards and whether formatLine panicked (the deferred Unlock runs in
\* both cases; the byte count is already raised when formatLine panics).
LogBody(req, ag, rawSeverity, line) ==
  LET severity == ClampSeverity(rawSeverity)
      r1 == [req EXCEPT !.severity = RaiseSeverity(@, severity)]
  IN IF LogReturnsEarly(r1, ag, severity)
     THEN [req |-> r1, panic |-> FALSE]
     ELSE LogAppend(LogCount(r1, line), ag, severity, line)

----------------------------------------------------------------------------
(* Goroutines *)

Goroutines == {"g1", "g2"}

NoCall == [name |-> "none"]
\* no function has been applied yet
Nothing == [nothing |-> TRUE]
NothingAdded == [counts |-> EmptyMap, durations |-> EmptyMap,
                 contended |-> FALSE]

\* no goroutine is in a call, the Request's mutex is free
Quiet(req) ==
  /\ pc = [g \in Goroutines |-> "idle"]
  /\ local = [g \in Goroutines |-> NoCall]
  /\ mutex = "free"
  /\ amutex = "free"
  /\ lin = req
  /\ added = NothingAdded
  /\ returned = Nothing

----------------------------------------------------------------------------
(* Specification Spec: a sequence of Log calls on one fresh Request *)

\* the severities passed to Log: below DEBUG, in range, above FATAL
Severities == {DEBUG - 1, DEBUG, WARN, FATAL + 1}

\* the configured line lengths and, for each, the byte budgets
LineLengths == {SmallLineLength, LineLength}
ByteBudgets(len) == {2 * len, 2 * len + 1}
LogLevels == {DEBUG, WARN, ERROR}

\* the lengths of the raw lines, for a configured MaxLineLength
RawLengths(len) == {0, len, len + 1}

\* hist: the number of Log calls so far, the raw severities and the line
\* lengths they were made with, the arguments of the last call and the
\* Request as it was before that call
\* and the number of Finish calls with the Request as the first one left it;
\* the name the Request was created with, the argument of the last
\* ChangeAction call (a sequence of none or one), and for every frame set
\* that Finish handed to the socket the action these two give
NoHistory(req) ==
  [n |-> 0, sevs |-> {}, lens |-> {}, severity |-> INFO, line |-> "",
   before |-> req, finished |-> 0, atFinish |-> req,
   created |-> req.action, changed |-> <<>>, actions |-> <<>>]

\* the action name the calls made so far ask for
ActionAskedFor(h) == IF h.changed = <<>> THEN h.created ELSE h.changed[1]

Init ==
  /\ \E lvl \in LogLevels, len \in LineLengths :
       \E max \in ByteBudgets(len) : a = NewAgent(lvl, len, max)
  /\ now = 0
  /\ r = NewRequest(a, "Users#index", "0f0e", now)
  /\ outcome = "none"
  /\ hist = NoHistory(r)
  /\ wire = <<>>
  /\ resp = [header |-> EmptyMap]
  /\ Quiet(r)

Log(severity, line) ==
  /\ hist.n < MaxCalls
  /\ LET res == LogBody(r, a, severity, line)
     IN /\ r' = res.req
        /\ outcome' = IF res.panic THEN "panic" ELSE "ok"
  /\ hist' = [hist EXCEPT !.n = @ + 1,
                          !.sevs = @ \cup {severity},
                          !.lens = @ \cup {Len(line)},
                          !.severity = severity,
                          !.line = line,
                          !.before = r]
  /\ UNCHANGED <<a, wire, now, resp>>
  /\ UNCHANGED concVars

LogNext ==
  \E severity \in Severities, n \in RawLengths(a.MaxLineLength) :
    Log(severity, RawLine(n))

Next == LogNext

Spec == Init /\ [][Next]_vars

----------------------------------------------------------------------------
(* The wire codec: packInfo and unpackInfo *)

metaInfoTag == 51901
metaInfoDeviceNumber == 0
metaInfoVersion == 1
noCompression == 0
snappyCompression == 2

\* binary.BigEndian.PutUintN: the width bytes of n, most significant first
RECURSIVE BigEndianPut(_, _)
BigEndianPut(n, width) ==
  IF width = 0 THEN <<>>
  ELSE Append(BigEndianPut(n \div 256, width - 1), n % 256)

\* binary.BigEndian.UintN: the number a byte sequence stands for
RECURSIVE BigEndianUint(_)
BigEndianUint(bytes) ==
  IF bytes = <<>> THEN 0
  ELSE BigEndianUint(SubSeq(bytes, 1, Len(bytes) - 1)) * 256
         + bytes[Len(bytes)]

\* mutant of packInfo: the sequence number is put before the time
packInfoSequenceFirst(t, i, compressionMethod) ==
  BigEndianPut(metaInfoTag, 2)
    \o <<compressionMethod>>
    \o <<metaInfoVersion>>
    \o BigEndianPut(metaInfoDeviceNumber, 4)
    \o BigEndianPut(i, 8)
    \o BigEndianPut(t \div 10, 8)

\* t is the clock in tenths of a millisecond, at or after the epoch:
\* t.UnixNano()/1000000 is t \div 10
packInfo(t, i, compressionMethod) ==
  BigEndianPut(metaInfoTag, 2)
    \o <<compressionMethod>>
    \o <<metaInfoVersion>>
    \o BigEndianPut(metaInfoDeviceNumber, 4)
    \o BigEndianPut(t \div 10, 8)
    \o BigEndianPut(i, 8)

NilInfo == [nil |-> TRUE]

unpackInfo(data) ==
  IF Len(data) # 24 THEN NilInfo
  ELSE [nil |-> FALSE,
        Tag |-> BigEndianUint(SubSeq(data, 1, 2)),
        CompressionMethod |-> data[3],
        Version |-> data[4],
        DeviceNumber |-> BigEndianUint(SubSeq(data, 5, 8)),
        Timestamp |-> BigEndianUint(SubSeq(data, 9, 16)),
        Sequence |-> BigEndianUint(SubSeq(data, 17, 24))]

----------------------------------------------------------------------------
(* The transport: setupSocket, sendMessage, sendPing, Shutdown *)

\* socket.SendMessage: an error on a closed socket, else as the network has it
SendFails(ag, sendOk) == ag.socket = "closed" \/ ~sendOk

\* mutant of SetupAborts: an error of the socket set-up is not looked at
SetupNeverAborts(setupOk) == FALSE

\* setupSocket: abort(err) panics when creating, connecting or configuring
\* the socket returned an error
SetupAborts(setupOk) == ~setupOk

\* a frame set handed to socket.SendMessage, and whether the call succeeded
Handed(frames, ok) == [frames |-> frames, ok |-> ok]

\* Agent.sendMessage, the lock taken and released around it: the agent and
\* the wire afterwards, and whether setupSocket panicked (abort).  setupOk is
\* whether creating, connecting and configuring the socket succeeds, sendOk
\* whether SendMessage does.
sendMessage(ag, w, msg, t, setupOk, sendOk) ==
  IF ag.socket = "nil" /\ SetupAborts(setupOk)
  THEN [a |-> ag, wire |-> w, panic |-> TRUE]
  ELSE LET a1 == IF ag.socket = "nil" THEN [ag EXCEPT !.socket = "open"]
                 ELSE ag
           a2 == [a1 EXCEPT !.sequence = @ + 1]
           meta == packInfo(t, a2.sequence, snappyCompression)
           err == SendFails(a2, sendOk)
       IN [a |-> IF err THEN [a2 EXCEPT !.Logger = @ + 1] ELSE a2,
           wire |-> Append(w, Handed(<<a2.stream, a2.topic, msg, meta>>, ~err)),
           panic |-> FALSE]

----------------------------------------------------------------------------
(* The mutators of the Request, each the body run under the Request's mutex *)

MapSet(m, key, value) ==
  [k \in DOMAIN m \cup {key} |-> IF k = key THEN value ELSE m[k]]

\* later entries win
MapMerge(m1, m2) ==
  [k \in DOMAIN m1 \cup DOMAIN m2 |-> IF k \in DOMAIN m2 THEN m2[k] ELSE m1[k]]

\* mutant of ChangeActionBody: only the header is set
ChangeActionHeaderOnly(req, action) == req

\* Request.ChangeAction, the Request afterwards (it takes no mutex)
ChangeActionBody(req, action) == [req EXCEPT !.action = action]

SetFieldBody(req, key, value) ==
  [req EXCEPT !.fields = MapSet(@, key, value)]

AddExceptionBody(req, name) ==
  [req EXCEPT !.exceptions = @ \cup {name}]

AddCountBody(req, key, value) ==
  [req EXCEPT !.counts =
     MapSet(@, key, (IF key \in DOMAIN @ THEN @[key] ELSE 0) + value)]

AddDurationBody(req, key, value) ==
  [req EXCEPT !.durations =
     MapSet(@, key, IF key \in DOMAIN @ THEN @[key] + value ELSE value)]

----------------------------------------------------------------------------
(* Request.Finish and the payload it builds *)

\* the environment tags read at start-up (HOSTNAME set, the others unset)
requestEnv == MapSet(EmptyMap, "host", "web-1")

\* a value json.Marshal refuses (a channel, a function)
Unmarshalable == "chan"

\* the division of Go's integers, which rounds towards zero
Quo(x, y) == IF x >= 0 THEN x \div y ELSE -((-x) \div y)

\* duration / time.Millisecond, the duration in tenths of a millisecond
Millis(duration) == Quo(duration, 10)

RECURSIVE SumOfMillis(_, _)
SumOfMillis(durations, keys) ==
  IF keys = {} THEN 0
  ELSE LET k == CHOOSE x \in keys : TRUE
       IN Millis(durations[k]) + SumOfMillis(durations, keys \ {k})

\* mutant of durationCorrectionFactor: the durations are never scaled
NoCorrectionFactor(req, totalTime) == <<1, 1>>

\* durations are in tenths of a millisecond, totalTime too; the factor is
\* the fraction <<numerator, denominator>>
durationCorrectionFactor(req, totalTime) ==
  LET sum == SumOfMillis(req.durations, DOMAIN req.durations)
  IN IF 10 * sum > totalTime THEN <<totalTime - 1, 10 * sum>> ELSE <<1, 1>>

totalTime(req) == req.endTime - req.startTime

\* msg[key] = c * float64(duration/time.Millisecond): the whole
\* milliseconds and the factor they are multiplied with
scaledDurations(req) ==
  LET c == durationCorrectionFactor(req, totalTime(req))
  IN [k \in DOMAIN req.durations |->
        [ms |-> Millis(req.durations[k]), factor |-> c]]

\* mutant of mergeFields: a field does not replace a key the message has
fieldsKeepMessage(msg, fields) == MapMerge(fields, msg)

\* the last loop of logjamPayload: msg[key] = val for every field
mergeFields(msg, fields) == MapMerge(msg, fields)

\* the map literal that logjamPayload starts with
payloadFixed(req, code) ==
  [k \in {"action", "code", "request_id", "trace_id",
          "severity", "started_ms", "total_time"} |->
     CASE k = "action" -> req.action
       [] k = "code" -> code
       [] k = "request_id" -> req.uuid
       [] k = "trace_id" -> req.traceID
       [] k = "severity" -> req.severity
       [] k = "started_ms" -> req.startTime \div 10
       [] k = "total_time" -> totalTime(req)]

\* if len(r.logLines) > 0 { msg["lines"] = r.logLines }
payloadLines(req) ==
  IF Len(req.logLines) > 0
  THEN MapSet(EmptyMap, "lines", req.logLines) ELSE EmptyMap

\* if len(r.exceptions) > 0 { ... msg["exceptions"] = exceptions }
payloadExceptions(req) ==
  IF req.exceptions # {}
  THEN MapSet(EmptyMap, "exceptions", req.exceptions) ELSE EmptyMap

logjamPayload(req, code) ==
  mergeFields(
    MapMerge(MapMerge(MapMerge(MapMerge(MapMerge(
      payloadFixed(req, code), payloadLines(req)), payloadExceptions(req)),
      requestEnv), scaledDurations(req)),
      req.counts),
    req.fields)

\* mutant of MarshalFails: the error of json.Marshal is not looked at
MarshalNeverFails(req) == FALSE

\* json.Marshal fails when a value cannot be encoded; only the values given
\* to SetField can be such, and the payload holds every field (merged last)
MarshalFails(req) ==
  \E k \in DOMAIN req.fields : req.fields[k] = Unmarshalable

jsonMarshal(payload) == [json |-> payload]
snappyEncode(buf) == [snappy |-> buf]

\* mutant of FinishBody: Finish returns at once when a message of the
\* Request has been handed over before
FinishBodyOnce(req, ag, w, code, t, setupOk, sendOk) ==
  LET r1 == [req EXCEPT !.endTime = t]
      payload == logjamPayload(r1, code)
  IN IF w # <<>> \/ MarshalFails(r1)
     THEN [req |-> r1, a |-> [ag EXCEPT !.Logger = @ + 1], wire |-> w,
           panic |-> FALSE]
     ELSE LET sent == sendMessage(ag, w, snappyEncode(jsonMarshal(payload)),
                                  t, setupOk, sendOk)
          IN [req |-> r1, a |-> sent.a, wire |-> sent.wire,
              panic |-> sent.panic]

\* Request.Finish at time t: the Request, the agent and the wire afterwards
FinishBody(req, ag, w, code, t, setupOk, sendOk) ==
  LET r1 == [req EXCEPT !.endTime = t]
      payload == logjamPayload(r1, code)
  IN IF MarshalFails(r1)
     THEN [req |-> r1, a |-> [ag EXCEPT !.Logger = @ + 1], wire |-> w,
           panic |-> FALSE]
     ELSE LET sent == sendMessage(ag, w, snappyEncode(jsonMarshal(payload)),
                                  t, setupOk, sendOk)
          IN [req |-> r1, a |-> sent.a, wire |-> sent.wire,
              panic |-> sent.panic]

----------------------------------------------------------------------------
(* Specification SpecAPI: the calls of the Request's API in any order, one  *)
(* after the other (the use of the agent for non web requests)             *)

FieldKeys == {"user_id"}
FieldValues == {"u1", Unmarshalable}
ExceptionTags == {"IOError"}
MetricKeys == {"db"}
\* durations, in tenths of a millisecond
DurationValues == {25}
Actions == {"Users#show", "System#notFound"}
Codes == {200}
\* the time that passes before a Finish call, in tenths of a millisecond
Elapsed == {0, 30}

InitAPI ==
  /\ a = NewAgent(DEBUG, LineLength, 2 * LineLength)
  /\ now = 0
  /\ r = NewRequest(a, "Users#index", "0f0e", now)
  /\ outcome = "none"
  /\ hist = NoHistory(r)
  /\ wire = <<>>
  /\ resp = [header |-> MapSet(EmptyMap, "X-Logjam-Action", r.action)]
  /\ Quiet(r)

\* a call that only changes the Request: req is the Request afterwards
Mutated(req) ==
  /\ hist.n < MaxCalls
  /\ r' = req
  /\ outcome' = "ok"
  /\ hist' = [hist EXCEPT !.n = @ + 1, !.before = r]
  /\ UNCHANGED <<a, wire, now>>
  /\ UNCHANGED concVars

SetField(key, value) ==
  Mutated(SetFieldBody(r, key, value)) /\ UNCHANGED resp

AddException(name) ==
  Mutated(AddExceptionBody(r, name)) /\ UNCHANGED resp

AddCount(key, value) ==
  Mutated(AddCountBody(r, key, value)) /\ UNCHANGED resp

Count(key) == AddCount(key, 1)

AddDuration(key, value) ==
  Mutated(AddDurationBody(r, key, value)) /\ UNCHANGED resp

ChangeAction(action) ==
  /\ hist.n < MaxCalls
  /\ r' = ChangeActionBody(r, action)
  /\ resp' = [resp EXCEPT !.header = MapSet(@, "X-Logjam-Action", action)]
  /\ outcome' = "ok"
  /\ hist' = [hist EXCEPT !.n = @ + 1, !.before = r, !.changed = <<action>>]
  /\ UNCHANGED <<a, wire, now>>
  /\ UNCHANGED concVars

Finish(code, dt, setupOk, sendOk) ==
  /\ hist.n < MaxCalls
  /\ now' = now + dt
  /\ LET res == FinishBody(r, a, wire, code, now', setupOk, sendOk)
     IN /\ r' = res.req
        /\ a' = res.a
        /\ wire' = res.wire
        /\ outcome' = IF res.panic THEN "panic" ELSE "ok"
        /\ hist' = [hist EXCEPT !.n = @ + 1, !.before = r,
                                !.finished = @ + 1,
                                !.atFinish = IF hist.finished = 0
                                             THEN res.req ELSE @,
                                !.actions =
                                  IF Len(res.wire) > Len(wire)
                                  THEN Append(@, ActionAskedFor(hist))
                                  ELSE @]
  /\ UNCHANGED resp
  /\ UNCHANGED concVars

ApiLog == \E severity \in {INFO, ERROR} : Log(severity, RawLine(3))
ApiSetField == \E k \in FieldKeys, v \in FieldValues : SetField(k, v)
ApiAddException == \E e \in ExceptionTags : AddException(e)
ApiAddCount == \E k \in MetricKeys : AddCount(k, 2)
ApiCount == \E k \in MetricKeys : Count(k)
ApiAddDuration == \E k \in MetricKeys, d \in DurationValues : AddDuration(k, d)
ApiChangeAction == \E act \in Actions : ChangeAction(act)
ApiFinish ==
  \E code \in Codes, dt \in Elapsed, setupOk \in BOOLEAN, sendOk \in BOOLEAN :
    Finish(code, dt, setupOk, sendOk)

NextAPI ==
  \/ ApiLog
  \/ ApiSetField
  \/ ApiAddException
  \/ ApiAddCount
  \/ ApiCount
  \/ ApiAddDuration
  \/ ApiChangeAction
  \/ ApiFinish

SpecAPI == InitAPI /\ [][NextAPI]_vars

----------------------------------------------------------------------------
(* Specification SpecConc: two goroutines call the mutators of one Request. *)
(* A call is: Lock, the statements of the body one by one, the deferred    *)
(* Unlock.  A read-modify-write statement is a read step and a write step. *)

\* mutant of MutexFree: Lock does not wait
MutexIgnored(m) == TRUE

\* sync.Mutex.Lock returns only when no goroutine holds the mutex
MutexFree(m) == m = "free"

\* the calls the goroutines make
ConcCalls ==
  {[name |-> "Log", severity |-> sev, line |-> RawLine(LineLength \div 2)] :
     sev \in {DEBUG - 1, ERROR}}
  \cup {[name |-> "AddCount", key |-> "db", value |-> 2]}
  \cup {[name |-> "Count", key |-> "db"]}
  \cup {[name |-> "AddDuration", key |-> "db", value |-> 25]}
  \cup {[name |-> "SetField", key |-> "user_id", value |-> v] :
          v \in {"u1", "u2"}}
  \cup {[name |-> "AddException", tag |-> "IOError"]}

\* the call as it is run when nothing interleaves
Sequentially(req, ag, call) ==
  CASE call.name = "Log" -> LogBody(req, ag, call.severity, call.line).req
    [] call.name = "AddCount" -> AddCountBody(req, call.key, call.value)
    [] call.name = "Count" -> AddCountBody(req, call.key, 1)
    [] call.name = "AddDuration" -> AddDurationBody(req, call.key, call.value)
    [] call.name = "SetField" -> SetFieldBody(req, call.key, call.value)
    [] call.name = "AddException" -> AddExceptionBody(req, call.tag)

\* the first statement after Lock
FirstStep(call) ==
  CASE call.name = "Log" -> "log_severity"
    [] call.name \in {"AddCount", "Count"} -> "count_read"
    [] call.name = "AddDuration" -> "duration_read"
    [] call.name = "SetField" -> "field_write"
    [] call.name = "AddException" -> "exception_write"

Plus(m, key, value) ==
  MapSet(m, key, (IF key \in DOMAIN m THEN m[key] ELSE 0) + value)

InitConc ==
  /\ a = NewAgent(INFO, LineLength, LineLength)
  /\ now = 0
  /\ r = NewRequest(a, "Users#index", "0f0e", now)
  /\ outcome = "none"
  /\ hist = NoHistory(r)
  /\ wire = <<>>
  /\ resp = [header |-> EmptyMap]
  /\ Quiet(r)

reqUnchanged == UNCHANGED <<a, wire, now, resp, amutex, returned>>

\* goroutine g makes a call: it arrives at r.mutex.Lock()
Call(g, call) ==
  /\ pc[g] = "idle"
  /\ hist.n < MaxCalls
  /\ pc' = [pc EXCEPT ![g] = "lock"]
  /\ local' = [local EXCEPT ![g] = call]
  /\ hist' = [hist EXCEPT !.n = @ + 1]
  /\ added' =
       [counts |-> CASE call.name = "AddCount" ->
                          Plus(added.counts, call.key, call.value)
                     [] call.name = "Count" -> Plus(added.counts, call.key, 1)
                     [] OTHER -> added.counts,
        durations |-> IF call.name = "AddDuration"
                      THEN Plus(added.durations, call.key, call.value)
                      ELSE added.durations,
        contended |-> added.contended \/ mutex # "free"]
  /\ UNCHANGED <<r, outcome, mutex, lin>>
  /\ reqUnchanged

Lock(g) ==
  /\ pc[g] = "lock"
  /\ MutexFree(mutex)
  /\ mutex' = g
  /\ pc' = [pc EXCEPT ![g] = FirstStep(local[g])]
  /\ lin' = Sequentially(lin, a, local[g])
  /\ UNCHANGED <<r, outcome, hist, local, added>>
  /\ reqUnchanged

\* a statement of a body that changes the Request to req and goes on at next
Step(g, at, req, next) ==
  /\ pc[g] = at
  /\ r' = req
  /\ pc' = [pc EXCEPT ![g] = next]
  /\ UNCHANGED <<outcome, hist, mutex, lin, added>>
  /\ reqUnchanged

\* Log: the clamping and the severity watermark, then the two early returns
LogSeverity(g) ==
  LET severity == ClampSeverity(local[g].severity)
      r1 == [r EXCEPT !.severity = RaiseSeverity(@, severity)]
  IN /\ Step(g, "log_severity", r1,
             IF LogReturnsEarly(r1, a, severity) THEN "unlock" ELSE "log_count")
     /\ local' = [local EXCEPT ![g].severity = severity]

LogCountStep(g) ==
  /\ Step(g, "log_count", LogCount(r, local[g].line), "log_append")
  /\ UNCHANGED local

LogAppendStep(g) ==
  /\ Step(g, "log_append",
          LogAppend(r, a, local[g].severity, local[g].line).req, "unlock")
  /\ UNCHANGED local

\* r.counts[key] += value: the read, then the write
CountRead(g) ==
  /\ Step(g, "count_read", r, "count_write")
  /\ local' = [local EXCEPT ![g] =
        [name |-> @.name, key |-> @.key,
         value |-> IF @.name = "Count" THEN 1 ELSE @.value,
         tmp |-> IF @.key \in DOMAIN r.counts THEN r.counts[@.key] ELSE 0]]

CountWrite(g) ==
  /\ Step(g, "count_write",
          [r EXCEPT !.counts =
             MapSet(@, local[g].key, local[g].tmp + local[g].value)],
          "unlock")
  /\ UNCHANGED local

\* AddDuration: the lookup, then the assignment of one of the two branches
DurationRead(g) ==
  /\ Step(g, "duration_read", r, "duration_write")
  /\ local' = [local EXCEPT ![g] =
        [name |-> @.name, key |-> @.key, value |-> @.value,
         set |-> @.key \in DOMAIN r.durations,
         tmp |-> IF @.key \in DOMAIN r.durations
                 THEN r.durations[@.key] ELSE 0]]

DurationWrite(g) ==
  /\ Step(g, "duration_write",
          [r EXCEPT !.durations =
             MapSet(@, local[g].key,
                    IF local[g].set THEN local[g].tmp + local[g].value
                    ELSE local[g].value)],
          "unlock")
  /\ UNCHANGED local

FieldWrite(g) ==
  /\ Step(g, "field_write",
          SetFieldBody(r, local[g].key, local[g].value), "unlock")
  /\ UNCHANGED local

ExceptionWrite(g) ==
  /\ Step(g, "exception_write", AddExceptionBody(r, local[g].tag), "unlock")
  /\ UNCHANGED local

\* the deferred r.mutex.Unlock(), and the return
Unlock(g) ==
  /\ pc[g] = "unlock"
  /\ mutex' = "free"
  /\ pc' = [pc EXCEPT ![g] = "idle"]
  /\ local' = [local EXCEPT ![g] = NoCall]
  /\ UNCHANGED <<r, outcome, hist, lin, added>>
  /\ reqUnchanged

NextConc ==
  \E g \in Goroutines :
    \/ \E call \in ConcCalls : Call(g, call)
    \/ Lock(g)
    \/ LogSeverity(g)
    \/ LogCountStep(g)
    \/ LogAppendStep(g)
    \/ CountRead(g)
    \/ CountWrite(g)
    \/ DurationRead(g)
    \/ DurationWrite(g)
    \/ FieldWrite(g)
    \/ ExceptionWrite(g)
    \/ Unlock(g)

SpecConc == InitConc /\ [][NextConc]_vars

----------------------------------------------------------------------------
(* Specification SpecAgent: two goroutines call sendMessage and Shutdown of *)
(* one Agent.  A call is: Lock, the statements of the body one by one, the *)
(* deferred Unlock, which also runs when the body panics.  a.sequence++ is *)
(* a read step and a write step.                                           *)

\* mutant of AgentMutexFree: a.mutex.Lock does not wait
AgentMutexIgnored(m) == TRUE

\* a.mutex.Lock returns only when no goroutine holds the agent's mutex
AgentMutexFree(m) == m = "free"

\* what socket.RecvMessage gives for the ping: an error (the receive timeout)
\* or the frames of the answer
PingAnswers ==
  {[err |-> TRUE, frames |-> <<>>],
   [err |-> FALSE, frames |-> <<"200 OK">>],
   [err |-> FALSE, frames |-> <<"app-env", "200 OK">>],
   [err |-> FALSE, frames |-> <<"app-env", "400 Bad Request", "example.com">>]}

\* len(answer) < 2 && answer[1] != "200 OK": the index is out of range
\* whenever the left operand is true
AnswerTestPanics(answer) == Len(answer) < 2

\* the payload bytes of the n-th call
Payload(n) == <<"payload", n>>

\* what is known of a call while it runs
AgentCall(name, n) ==
  [name |-> name, id |-> n, msg |-> Payload(n), seq |-> 0, seq0 |-> 0,
   socket0 |-> "nil", setupFailed |-> FALSE, sendFailed |-> FALSE, attempts |-> 0,
   logged |-> 0]

\* a call that has ended, by return or by panic
Ended(call, result, ag) ==
  [name |-> call.name, id |-> call.id, result |-> result,
   setupFailed |-> call.setupFailed, sendFailed |-> call.sendFailed,
   attempts |-> call.attempts, logged |-> call.logged,
   advanced |-> ag.sequence - call.seq0, socket0 |-> call.socket0,
   socket |-> ag.socket]

InitAgent ==
  /\ a = NewAgent(INFO, LineLength, LineLength)
  /\ now = 12345
  /\ r = NewRequest(a, "Users#index", "0f0e", now)
  /\ outcome = "none"
  /\ hist = [n |-> 0, done |-> {}, contended |-> FALSE, created |-> 0]
  /\ wire = <<>>
  /\ resp = [header |-> EmptyMap]
  /\ Quiet(r)

agentUnchanged ==
  UNCHANGED <<r, outcome, now, resp, mutex, lin, added, returned>>

\* goroutine g calls a.sendMessage or a.Shutdown: it arrives at a.mutex.Lock()
AgentCalls(g, name) ==
  /\ pc[g] = "idle"
  /\ hist.n < MaxAgentCalls
  /\ pc' = [pc EXCEPT ![g] = "agent_lock"]
  /\ local' = [local EXCEPT ![g] = AgentCall(name, hist.n + 1)]
  /\ hist' = [hist EXCEPT !.n = @ + 1,
                          !.contended = @ \/ amutex # "free"]
  /\ UNCHANGED <<a, wire, amutex>>
  /\ agentUnchanged

AgentLock(g) ==
  /\ pc[g] = "agent_lock"
  /\ AgentMutexFree(amutex)
  /\ amutex' = g
  /\ local' = [local EXCEPT ![g].seq0 = a.sequence, ![g].socket0 = a.socket]
  /\ pc' = [pc EXCEPT ![g] = IF local[g].name = "sendMessage"
                             THEN "setup" ELSE "shutdown_test"]
  /\ UNCHANGED <<a, wire, hist>>
  /\ agentUnchanged

\* the call of g ends by a panic: the deferred a.mutex.Unlock runs
AgentPanics(g, call) ==
  /\ amutex' = "free"
  /\ hist' = [hist EXCEPT !.done = @ \cup {Ended(call, "panic", a)}]
  /\ pc' = [pc EXCEPT ![g] = "idle"]
  /\ local' = [local EXCEPT ![g] = NoCall]
  /\ UNCHANGED <<a, wire>>

\* mutant of socketIsNil: sendMessage calls setupSocket on every send
socketTestSkipped(socket) == TRUE

\* sendMessage: a.socket == nil
socketIsNil(socket) == socket = "nil"

\* sendMessage: if a.socket == nil { a.setupSocket() }
SetupSocket(g, setupOk) ==
  /\ pc[g] = "setup"
  /\ IF ~socketIsNil(a.socket)
     THEN /\ pc' = [pc EXCEPT ![g] = "sequence_read"]
          /\ UNCHANGED <<a, wire, hist, local, amutex>>
     ELSE IF SetupAborts(setupOk)
     THEN AgentPanics(g, [local[g] EXCEPT !.setupFailed = TRUE])
     ELSE /\ a' = [a EXCEPT !.socket = "open"]
          /\ local' = [local EXCEPT ![g].setupFailed = ~setupOk]
          /\ hist' = [hist EXCEPT !.created = @ + 1]
          /\ pc' = [pc EXCEPT ![g] = "sequence_read"]
          /\ UNCHANGED <<wire, amutex>>
  /\ agentUnchanged

\* Shutdown: if a.socket != nil { a.sendPing(); a.socket.Close() }
ShutdownTest(g) ==
  /\ pc[g] = "shutdown_test"
  /\ pc' = [pc EXCEPT ![g] = IF a.socket # "nil" THEN "sequence_read"
                             ELSE "agent_unlock"]
  /\ UNCHANGED <<a, wire, hist, local, amutex>>
  /\ agentUnchanged

\* a.sequence++, the read
SequenceRead(g) ==
  /\ pc[g] = "sequence_read"
  /\ local' = [local EXCEPT ![g].seq = a.sequence]
  /\ pc' = [pc EXCEPT ![g] = "sequence_write"]
  /\ UNCHANGED <<a, wire, hist, amutex>>
  /\ agentUnchanged

\* a.sequence++, the write
SequenceWrite(g) ==
  /\ pc[g] = "sequence_write"
  /\ a' = [a EXCEPT !.sequence = local[g].seq + 1]
  /\ pc' = [pc EXCEPT ![g] = IF local[g].name = "sendMessage"
                             THEN "send" ELSE "ping_send"]
  /\ UNCHANGED <<wire, hist, local, amutex>>
  /\ agentUnchanged

\* sendMessage: packInfo, socket.SendMessage and the error to the Logger
Send(g, sendOk) ==
  /\ pc[g] = "send"
  /\ LET meta == packInfo(now, a.sequence, snappyCompression)
         err == SendFails(a, sendOk)
     IN /\ wire' = Append(wire, Handed(<<a.stream, a.topic, local[g].msg,
                                         meta>>, ~err))
        /\ a' = IF err THEN [a EXCEPT !.Logger = @ + 1] ELSE a
        /\ local' = [local EXCEPT ![g].attempts = @ + 1,
                                  ![g].sendFailed = err,
                                  ![g].logged = @ + (IF err THEN 1 ELSE 0)]
  /\ pc' = [pc EXCEPT ![g] = "agent_unlock"]
  /\ UNCHANGED <<hist, amutex>>
  /\ agentUnchanged

\* sendPing: packInfo, socket.SendMessage; on an error sendPing returns
PingSend(g, sendOk) ==
  /\ pc[g] = "ping_send"
  /\ LET meta == packInfo(now, a.sequence, noCompression)
         err == SendFails(a, sendOk)
     IN /\ wire' = Append(wire, Handed(<<"", "ping", a.stream, "{}", meta>>,
                                       ~err))
        /\ a' = IF err THEN [a EXCEPT !.Logger = @ + 1] ELSE a
        /\ local' = [local EXCEPT ![g].attempts = @ + 1,
                                  ![g].sendFailed = err,
                                  ![g].logged = @ + (IF err THEN 1 ELSE 0)]
        /\ pc' = [pc EXCEPT ![g] = IF err THEN "close" ELSE "ping_recv"]
  /\ UNCHANGED <<hist, amutex>>
  /\ agentUnchanged

\* sendPing: socket.RecvMessage and the test of the answer
PingRecv(g, answer) ==
  /\ pc[g] = "ping_recv"
  /\ IF answer.err
     THEN /\ a' = [a EXCEPT !.Logger = @ + 1]
          /\ local' = [local EXCEPT ![g].logged = @ + 1]
          /\ pc' = [pc EXCEPT ![g] = "close"]
          /\ UNCHANGED <<wire, hist, amutex>>
     ELSE IF AnswerTestPanics(answer.frames)
     THEN AgentPanics(g, local[g])
     ELSE /\ pc' = [pc EXCEPT ![g] = "close"]
          /\ UNCHANGED <<a, wire, hist, local, amutex>>
  /\ agentUnchanged

\* Shutdown: a.socket.Close()
Close(g) ==
  /\ pc[g] = "close"
  /\ a' = [a EXCEPT !.socket = "closed"]
  /\ pc' = [pc EXCEPT ![g] = "agent_unlock"]
  /\ UNCHANGED <<wire, hist, local, amutex>>
  /\ agentUnchanged

\* the call returns: the deferred a.mutex.Unlock runs
AgentUnlock(g) ==
  /\ pc[g] = "agent_unlock"
  /\ amutex' = "free"
  /\ hist' = [hist EXCEPT !.done = @ \cup {Ended(local[g], "returned", a)}]
  /\ pc' = [pc EXCEPT ![g] = "idle"]
  /\ local' = [local EXCEPT ![g] = NoCall]
  /\ UNCHANGED <<a, wire>>
  /\ agentUnchanged

NextAgent ==
  \E g \in Goroutines :
    \/ AgentCalls(g, "sendMessage")
    \/ AgentCalls(g, "Shutdown")
    \/ AgentLock(g)
    \/ \E setupOk \in BOOLEAN : SetupSocket(g, setupOk)
    \/ ShutdownTest(g)
    \/ SequenceRead(g)
    \/ SequenceWrite(g)
    \/ \E sendOk \in BOOLEAN : Send(g, sendOk)
    \/ \E sendOk \in BOOLEAN : PingSend(g, sendOk)
    \/ \E answer \in PingAnswers : PingRecv(g, answer)
    \/ Close(g)
    \/ AgentUnlock(g)

SpecAgent == InitAgent /\ [][NextAgent]_vars

----------------------------------------------------------------------------
(* Specification SpecHTTP: the middleware's ServeHTTP serves HTTP requests  *)
(* one after the other, with the package-level agent.  The Request of this *)
(* revision has no mutex; its Finish builds a message struct and fills the *)
(* metrics in by reflection.                                               *)

\* the goroutine that serves
Server == "g1"

\* the float64 fields of the message struct
FloatFields ==
  {"DbTime", "GcTime", "MemcacheTime", "OtherTime", "RestTime", "TotalTime",
   "ViewTime", "WaitTime"}

\* the integer fields of the message struct
IntFields ==
  {"Code", "ProcessID", "StartedMS", "Severity", "UserID", "AllocatedBytes",
   "AllocatedMemory", "AllocatedObjects", "DbCalls", "HeapSize",
   "LiveDataSetSize", "MemcacheCalls", "MemcacheMisses", "MemcacheReads",
   "MemcacheWrites", "ResponseCode", "RestCalls", "RestQueueRuns"}

\* the values a panic carries
StringValue(text) == [type |-> "string", text |-> text]
ValueError(method) ==
  [type |-> "*reflect.ValueError",
   text |-> "&reflect.ValueError{Method:\"" \o method \o "\", Kind:0x0}"]
NoValue == [type |-> "nil", text |-> ""]

\* fmt.Sprintf("%#v", recovered): a string in Go syntax is quoted
GoSyntax(recovered) ==
  IF recovered.type = "string" THEN "\"" \o recovered.text \o "\""
  ELSE recovered.text

\* the value setupSocket panics with
SetupPanic == StringValue("logjam agent could not configure socket: error")

\* NewRequest(actionName) at time t, with the UUID that generateUUID returned
HttpNewRequest(ag, actionName, uuid, t) ==
  [actionName |-> actionName,
   logLines |-> <<>>,
   logLinesBytesCount |-> 0,
   statDurations |-> EmptyMap,
   statCounts |-> EmptyMap,
   severity |-> DEBUG,
   info |-> EmptyMap,
   callerID |-> "",
   callerAction |-> "",
   ip |-> "",
   startTime |-> t,
   endTime |-> 0,
   uuid |-> uuid,
   id |-> ag.AppName \o "-" \o ag.EnvName \o "-" \o uuid]

\* Request.log of this revision (logger.Println(line) goes to the process's
\* log, which no modelled code reads)
log(req, severity, line) ==
  LET r1 == [req EXCEPT !.severity = IF @ < severity THEN severity ELSE @]
      count == r1.logLinesBytesCount + Len(line)
      stored == IF count < maxBytesAllLinesDefault THEN line
                ELSE linesTruncated
  IN IF r1.logLinesBytesCount > maxBytesAllLinesDefault THEN r1
     ELSE [r1 EXCEPT
             !.logLinesBytesCount = count,
             !.logLines =
               Append(@, formatLine(severity, stored,
                                    maxLineLengthDefault).line)]

\* Request.AddDuration and Request.AddCount of this revision
HttpAddDuration(req, key, value) ==
  [req EXCEPT !.statDurations =
     MapSet(@, key, IF key \in DOMAIN @ THEN @[key] + value ELSE value)]

HttpAddCount(req, key, value) ==
  [req EXCEPT !.statCounts =
     MapSet(@, key, (IF key \in DOMAIN @ THEN @[key] ELSE 0) + value)]

\* message.setDurations: v.FieldByName(key).SetFloat panics when the struct
\* has no float64 field of that name
setDurationsPanics(durations) == \E key \in DOMAIN durations : key \notin FloatFields

\* durations are in tenths of a millisecond; duration / time.Millisecond
\* is a division of integers
setDurations(msg, durations) ==
  MapMerge(msg, [key \in DOMAIN durations |-> durations[key] \div 10])

\* message.setCounts: v.FieldByName(key).SetInt panics when the struct has
\* no integer field of that name
setCountsPanics(counts) == \E key \in DOMAIN counts : key \notin IntFields

setCounts(msg, counts) == MapMerge(msg, counts)

\* requestInfo(r) for the request served
requestInfo == [method |-> "GET", url |-> "/users/1"]

\* Request.payloadMessage: the message, or the panic of setDurations or
\* setCounts
payloadMessage(req, code) ==
  LET msg == [k \in {"Action", "Code", "IP", "Lines", "RequestID", "CallerID",
                     "CallerAction", "RequestInfo", "Severity", "StartedMS",
                     "TotalTime", "Host"} |->
                CASE k = "Action" -> req.actionName
                  [] k = "Code" -> code
                  [] k = "IP" -> req.ip
                  [] k = "Lines" -> req.logLines
                  [] k = "RequestID" -> req.uuid
                  [] k = "CallerID" -> req.callerID
                  [] k = "CallerAction" -> req.callerAction
                  [] k = "RequestInfo" -> req.info
                  [] k = "Severity" -> req.severity
                  [] k = "StartedMS" -> req.startTime \div 10
                  [] k = "TotalTime" -> req.endTime - req.startTime
                  [] k = "Host" -> requestEnv["host"]]
  IN IF setDurationsPanics(req.statDurations)
     THEN [panic |-> TRUE, value |-> ValueError("reflect.Value.SetFloat"),
           msg |-> msg]
     ELSE IF setCountsPanics(req.statCounts)
     THEN [panic |-> TRUE, value |-> ValueError("reflect.Value.SetInt"),
           msg |-> msg]
     ELSE [panic |-> FALSE, value |-> NoValue,
           msg |-> setCounts(setDurations(msg, req.statDurations),
                             req.statCounts)]

\* the package-level sendMessage of this revision: the statements of
\* Agent.sendMessage on the package-level agent
globalSendMessage(ag, w, msg, t, setupOk, sendOk) ==
  sendMessage(ag, w, msg, t, setupOk, sendOk)

\* Request.Finish of this revision at time t: the Request, the agent and the
\* wire afterwards, and the panic that leaves it, if any (the message holds
\* strings, numbers and the log lines, which json.Marshal accepts)
HttpFinish(req, ag, w, code, t, setupOk, sendOk) ==
  LET r1 == [req EXCEPT !.endTime = t]
      payload == payloadMessage(r1, code)
  IN IF payload.panic
     THEN [req |-> r1, a |-> ag, wire |-> w, panic |-> TRUE,
           value |-> payload.value]
     ELSE LET sent == globalSendMessage(ag, w, jsonMarshal(payload.msg), t,
                                        setupOk, sendOk)
          IN [req |-> r1, a |-> sent.a, wire |-> sent.wire,
              panic |-> sent.panic,
              value |-> IF sent.panic THEN SetupPanic ELSE NoValue]

\* Request.finishWithPanic
finishWithPanic(req, ag, w, recovered, t, setupOk, sendOk) ==
  HttpFinish(log(req, FATAL, GoSyntax(recovered)), ag, w, 500, t, setupOk,
             sendOk)

\* the inputs
UUIDs == <<"0f0e", "1a2b", "2c3d", "3e4f">>
HttpDurationKeys == {"DbTime", "RedisTime"}
HttpCountKeys == {"DbCalls", "CacheHits"}
HttpCodes == {200, 404}
PanicValues == {StringValue("oh no")}

\* what is known of a ServeHTTP call while it runs
Serving(n) ==
  [name |-> "ServeHTTP", id |-> n, calls |-> 0, code |-> 200,
   handlerPanicked |-> FALSE, value |-> NoValue, recovered |-> NoValue,
   finishes |-> 0, handed0 |-> Len(wire)]

\* the messages handed to the socket since the ServeHTTP call began
HandedSince(w, call) ==
  [i \in 1..(Len(w) - call.handed0) |-> w[call.handed0 + i].frames[3].json]

\* a ServeHTTP call that has ended, by return or by the panic raised
Served(call, w, raised) ==
  [id |-> call.id, handlerPanicked |-> call.handlerPanicked,
   value |-> call.value, finishes |-> call.finishes,
   messages |-> HandedSince(w, call), raised |-> raised]

InitHTTP ==
  /\ a = NewAgent(DEBUG, maxLineLengthDefault, maxBytesAllLinesDefault)
  /\ now = 0
  /\ r = HttpNewRequest(a, "Unknown#unknown", UUIDs[1], now)
  /\ outcome = "none"
  /\ hist = [n |-> 0, done |-> {}]
  /\ wire = <<>>
  /\ resp = [header |-> EmptyMap]
  /\ Quiet(r)

httpUnchanged == UNCHANGED <<outcome, mutex, amutex, lin, added, returned>>

\* ServeHTTP up to the call of the handler
ServeHTTP(action) ==
  /\ pc[Server] = "idle"
  /\ hist.n < MaxRequests
  /\ hist' = [hist EXCEPT !.n = @ + 1]
  /\ r' = HttpNewRequest(a, action, UUIDs[hist.n + 1], now)
  /\ resp' = [header |-> [k \in {"X-Logjam-Request-Id", "X-Logjam-Action",
                                 "X-Logjam-Caller-Id"} |->
                            CASE k = "X-Logjam-Request-Id" -> r'.id
                              [] k = "X-Logjam-Action" -> r'.actionName
                              [] k = "X-Logjam-Caller-Id" -> r'.callerID]]
  /\ local' = [local EXCEPT ![Server] = Serving(hist.n + 1)]
  /\ pc' = [pc EXCEPT ![Server] = "handler"]
  /\ UNCHANGED <<a, wire, now>>
  /\ httpUnchanged

\* the handler makes a call on the Request
HandlerMutates(req) ==
  /\ pc[Server] = "handler"
  /\ local[Server].calls < MaxHandlerCalls
  /\ r' = req
  /\ local' = [local EXCEPT ![Server].calls = @ + 1]
  /\ UNCHANGED <<a, wire, now, resp, hist, pc>>
  /\ httpUnchanged

HandlerAddDuration(key, value) == HandlerMutates(HttpAddDuration(r, key, value))

HandlerAddCount(key, value) == HandlerMutates(HttpAddCount(r, key, value))

\* the handler writes the header: httpsnoop captures the first status code
HandlerWriteHeader(code) ==
  /\ pc[Server] = "handler"
  /\ "code" \notin DOMAIN resp
  /\ resp' = [header |-> resp.header, code |-> code]
  /\ local' = [local EXCEPT ![Server].code = code]
  /\ UNCHANGED <<a, r, wire, now, hist, pc>>
  /\ httpUnchanged

\* the handler returns: logjamRequest.info = requestInfo(r) and
\* logjamRequest.Finish(metrics); a panic of Finish goes to the deferred
\* function
HandlerReturns(dt, setupOk, sendOk) ==
  /\ pc[Server] = "handler"
  /\ now' = now + dt
  /\ LET res == HttpFinish([r EXCEPT !.info = requestInfo], a, wire,
                           local[Server].code, now', setupOk, sendOk)
         call == [local[Server] EXCEPT !.finishes = @ + 1,
                                       !.recovered = res.value]
     IN /\ r' = res.req
        /\ a' = res.a
        /\ wire' = res.wire
        /\ IF res.panic
           THEN /\ pc' = [pc EXCEPT ![Server] = "recover"]
                /\ local' = [local EXCEPT ![Server] = call]
                /\ UNCHANGED hist
           ELSE /\ pc' = [pc EXCEPT ![Server] = "idle"]
                /\ local' = [local EXCEPT ![Server] = NoCall]
                /\ hist' = [hist EXCEPT !.done =
                              @ \cup {Served(call, wire', NoValue)}]
  /\ UNCHANGED resp
  /\ httpUnchanged

\* the handler panics: the panic goes to the deferred function
HandlerPanics(value, dt) ==
  /\ pc[Server] = "handler"
  /\ now' = now + dt
  /\ local' = [local EXCEPT ![Server].handlerPanicked = TRUE,
                            ![Server].value = value,
                            ![Server].recovered = value]
  /\ pc' = [pc EXCEPT ![Server] = "recover"]
  /\ UNCHANGED <<a, r, wire, resp, hist>>
  /\ httpUnchanged

\* the deferred function: recover, finishWithPanic(recovered) and
\* panic(recovered); a panic of finishWithPanic leaves ServeHTTP instead
Recover(setupOk, sendOk) ==
  /\ pc[Server] = "recover"
  /\ LET res == finishWithPanic(r, a, wire, local[Server].recovered, now,
                                setupOk, sendOk)
         call == [local[Server] EXCEPT !.finishes = @ + 1]
         raised == IF res.panic THEN res.value ELSE local[Server].recovered
     IN /\ r' = res.req
        /\ a' = res.a
        /\ wire' = res.wire
        /\ hist' = [hist EXCEPT !.done = @ \cup {Served(call, wire', raised)}]
  /\ pc' = [pc EXCEPT ![Server] = "idle"]
  /\ local' = [local EXCEPT ![Server] = NoCall]
  /\ UNCHANGED <<now, resp>>
  /\ httpUnchanged

NextHTTP ==
  \/ \E action \in Actions : ServeHTTP(action)
  \/ \E key \in HttpDurationKeys, value \in DurationValues :
       HandlerAddDuration(key, value)
  \/ \E key \in HttpCountKeys : HandlerAddCount(key, 1)
  \/ \E code \in HttpCodes : HandlerWriteHeader(code)
  \/ \E dt \in Elapsed, setupOk, sendOk \in BOOLEAN :
       HandlerReturns(dt, setupOk, sendOk)
  \/ \E value \in PanicValues, dt \in Elapsed : HandlerPanics(value, dt)
  \/ \E setupOk, sendOk \in BOOLEAN : Recover(setupOk, sendOk)

SpecHTTP == InitHTTP /\ [][NextHTTP]_vars

----------------------------------------------------------------------------
(* Specification SpecPayload: logjamPayload applied to a Request as Finish  *)
(* finds it, for the durations, counters, fields and times of a bounded set *)

\* the maps from a subset of the keys to the values
MapsOver(keys, values) ==
  UNION {[subset -> values] : subset \in SUBSET keys}

\* a duration key that is also a counter key, one that is an environment tag
PayloadDurationKeys == {"db", "host"}
\* durations in tenths of a millisecond, one of them negative
PayloadDurationValues == {-15, 5, 25, 49}
\* a counter key that is also a duration key, one that is a fixed key
PayloadCountKeys == {"db", "code"}
PayloadCountValues == {3}
\* field keys that are a fixed key, an environment tag, a duration and counter
PayloadFieldKeys == {"action", "host", "db"}
PayloadFieldValues == {"x"}
\* the time from start to Finish, in tenths of a millisecond
PayloadTotalTimes == {0, 1, 30, 80}

InitPayload ==
  /\ a = NewAgent(DEBUG, LineLength, 2 * LineLength)
  /\ now \in PayloadTotalTimes
  /\ \E durations \in MapsOver(PayloadDurationKeys, PayloadDurationValues),
        counts \in MapsOver(PayloadCountKeys, PayloadCountValues),
        fields \in MapsOver(PayloadFieldKeys, PayloadFieldValues) :
       r = [NewRequest(a, "Users#index", "0f0e", 0) EXCEPT
              !.durations = durations, !.counts = counts, !.fields = fields,
              !.endTime = now]
  /\ outcome = "none"
  /\ hist = [n |-> 0]
  /\ wire = <<>>
  /\ resp = [header |-> EmptyMap]
  /\ Quiet(r)

\* payload := r.logjamPayload(code)
LogjamPayload(code) ==
  /\ returned = Nothing
  /\ returned' = [payload |-> logjamPayload(r, code), code |-> code]
  /\ UNCHANGED <<a, r, outcome, hist, wire, now, resp, pc, local, mutex,
                 amutex, lin, added>>

NextPayload == \E code \in Codes : LogjamPayload(code)

SpecPayload == InitPayload /\ [][NextPayload]_vars

----------------------------------------------------------------------------
(* Specification SpecCapture: captureMetricsFn runs a handler with the      *)
(* wrapped writer; the handler, one goroutine, calls WriteHeader, Write and *)
(* ReadFrom and then returns or panics.  resp holds the metrics m, and the *)
(* calls the hooks passed on to the writer they wrap (next).               *)

\* var m metrics
ZeroMetrics == [Code |-> 0, Written |-> 0, HeaderWritten |-> FALSE]

\* mutant of WriteHeaderHook: the code of every call is kept
WriteHeaderHookLastWins(m, code) ==
  [m EXCEPT !.Code = code, !.HeaderWritten = TRUE]

\* the WriteHeader hook after next(code)
WriteHeaderHook(m, code) ==
  IF ~m.HeaderWritten THEN [m EXCEPT !.Code = code, !.HeaderWritten = TRUE]
  ELSE m

\* mutant of WriteHook: the header is not marked as written
WriteHookLeavesHeader(m, n) == [m EXCEPT !.Written = @ + n]

\* the Write hook after n, err := next(p)
WriteHook(m, n) == [m EXCEPT !.Written = @ + n, !.HeaderWritten = TRUE]

\* mutant of ReadFromHook: the bytes are not counted
ReadFromHookDropsBytes(m, n) == [m EXCEPT !.HeaderWritten = TRUE]

\* the ReadFrom hook after n, err := next(src)
ReadFromHook(m, n) == [m EXCEPT !.Written = @ + n, !.HeaderWritten = TRUE]

\* the inputs: status codes, one of them refused by net/http (WriteHeader
\* panics), the length of a body, the byte counts the wrapped writer returns
StatusCodes == {400, 404}
InvalidStatusCode == 0
BodyLength == 3
BytesReturned == {0, 2, BodyLength}

InitCapture ==
  /\ a = NewAgent(DEBUG, LineLength, 2 * LineLength)
  /\ now = 0
  /\ r = NewRequest(a, "Users#index", "0f0e", now)
  /\ outcome = "none"
  /\ hist = [calls |-> <<>>, ended |-> "no"]
  /\ wire = <<>>
  /\ resp = [header |-> EmptyMap, m |-> ZeroMetrics, next |-> <<>>]
  /\ Quiet(r)

captureUnchanged ==
  UNCHANGED <<a, r, outcome, wire, now, local, mutex, amutex, lin, added,
              returned>>

\* captureMetricsFn up to the call of fn: m.Code = 200
CaptureMetricsFn ==
  /\ pc[Server] = "idle"
  /\ hist.ended = "no"
  /\ resp' = [resp EXCEPT !.m.Code = 200]
  /\ pc' = [pc EXCEPT ![Server] = "fn"]
  /\ UNCHANGED hist
  /\ captureUnchanged

\* the handler makes a call that returns: what next was called with, the
\* metrics after the hook, and the call as the handler saw it
WriterCall(call, m) ==
  /\ pc[Server] = "fn"
  /\ Len(hist.calls) < MaxWriterCalls
  /\ resp' = [resp EXCEPT !.m = m, !.next = Append(@, <<call.op, call.arg>>)]
  /\ hist' = [hist EXCEPT !.calls = Append(@, call)]
  /\ UNCHANGED pc
  /\ captureUnchanged

WriteHeader(code) ==
  WriterCall([op |-> "WriteHeader", arg |-> code, n |-> 0],
             WriteHeaderHook(resp.m, code))

\* next(code) panics for a code net/http refuses: the hook's statements
\* after it are not run, and the panic ends fn
WriteHeaderPanics ==
  /\ pc[Server] = "fn"
  /\ Len(hist.calls) < MaxWriterCalls
  /\ resp' = [resp EXCEPT
                !.next = Append(@, <<"WriteHeader", InvalidStatusCode>>)]
  /\ hist' = [hist EXCEPT !.ended = "panicked"]
  /\ pc' = [pc EXCEPT ![Server] = "idle"]
  /\ captureUnchanged

\* w.Write(p): the wrapped writer returns n, with an error when n < len(p)
Write(n) ==
  WriterCall([op |-> "Write", arg |-> BodyLength, n |-> n],
             WriteHook(resp.m, n))

\* w.ReadFrom(src): the wrapped writer returns n
ReadFrom(n) ==
  WriterCall([op |-> "ReadFrom", arg |-> BodyLength, n |-> n],
             ReadFromHook(resp.m, n))

\* fn returns, and captureMetricsFn with it
FnReturns ==
  /\ pc[Server] = "fn"
  /\ hist' = [hist EXCEPT !.ended = "returned"]
  /\ pc' = [pc EXCEPT ![Server] = "idle"]
  /\ UNCHANGED resp
  /\ captureUnchanged

\* the handler panics: the panic leaves captureMetricsFn, and the caller
\* reads m
FnPanics ==
  /\ pc[Server] = "fn"
  /\ hist' = [hist EXCEPT !.ended = "panicked"]
  /\ pc' = [pc EXCEPT ![Server] = "idle"]
  /\ UNCHANGED resp
  /\ captureUnchanged

NextCapture ==
  \/ CaptureMetricsFn
  \/ \E code \in StatusCodes : WriteHeader(code)
  \/ WriteHeaderPanics
  \/ \E n \in BytesReturned : Write(n)
  \/ \E n \in BytesReturned : ReadFrom(n)
  \/ FnReturns
  \/ FnPanics

SpecCapture == InitCapture /\ [][NextCapture]_vars

----------------------------------------------------------------------------
(* Specification SpecHooks: the handler that captureMetricsFn runs calls   *)
(* WriteHeader of the wrapped writer from two goroutines.  A call is:      *)
(* next(code), lock.Lock(), the test and the assignments, the deferred     *)
(* lock.Unlock().  mutex is the lock of captureMetricsFn, resp.next the    *)
(* calls in the order in which they reached the wrapped writer.            *)

MaxHookCalls == 3
HookCodes == {404, 500}

InitHooks ==
  /\ a = NewAgent(DEBUG, LineLength, 2 * LineLength)
  /\ now = 0
  /\ r = NewRequest(a, "Users#index", "0f0e", now)
  /\ outcome = "none"
  /\ hist = [n |-> 0, contended |-> FALSE]
  /\ wire = <<>>
  /\ resp = [header |-> EmptyMap, m |-> [ZeroMetrics EXCEPT !.Code = 200],
             next |-> <<>>]
  /\ Quiet(r)

hooksUnchanged ==
  UNCHANGED <<a, r, outcome, wire, now, amutex, lin, added, returned>>

\* goroutine g calls w.WriteHeader(code) of the wrapped writer
HookCalls(g, code) ==
  /\ pc[g] = "idle"
  /\ hist.n < MaxHookCalls
  /\ local' = [local EXCEPT ![g] = [name |-> "WriteHeader", code |-> code]]
  /\ hist' = [hist EXCEPT !.n = @ + 1]
  /\ pc' = [pc EXCEPT ![g] = "next"]
  /\ UNCHANGED <<resp, mutex>>
  /\ hooksUnchanged

\* next(code): the call reaches the writer that is wrapped
HookNext(g) ==
  /\ pc[g] = "next"
  /\ resp' = [resp EXCEPT
                !.next = Append(@, <<"WriteHeader", local[g].code>>)]
  /\ pc' = [pc EXCEPT ![g] = "hook_lock"]
  /\ hist' = [hist EXCEPT !.contended = @ \/ mutex # "free"]
  /\ UNCHANGED <<local, mutex>>
  /\ hooksUnchanged

\* lock.Lock()
HookLock(g) ==
  /\ pc[g] = "hook_lock"
  /\ MutexFree(mutex)
  /\ mutex' = g
  /\ pc' = [pc EXCEPT ![g] = "hook_body"]
  /\ UNCHANGED <<resp, hist, local>>
  /\ hooksUnchanged

\* if !m.HeaderWritten { m.Code = code; m.HeaderWritten = true }
HookBody(g) ==
  /\ pc[g] = "hook_body"
  /\ resp' = [resp EXCEPT !.m = WriteHeaderHook(@, local[g].code)]
  /\ pc' = [pc EXCEPT ![g] = "hook_unlock"]
  /\ UNCHANGED <<hist, local, mutex>>
  /\ hooksUnchanged

\* the deferred lock.Unlock(), and the return
HookUnlock(g) ==
  /\ pc[g] = "hook_unlock"
  /\ mutex' = "free"
  /\ pc' = [pc EXCEPT ![g] = "idle"]
  /\ local' = [local EXCEPT ![g] = NoCall]
  /\ UNCHANGED <<resp, hist>>
  /\ hooksUnchanged

NextHooks ==
  \E g \in Goroutines :
    \/ \E code \in HookCodes : HookCalls(g, code)
    \/ HookNext(g)
    \/ HookLock(g)
    \/ HookBody(g)
    \/ HookUnlock(g)

SpecHooks == InitHooks /\ [][NextHooks]_vars

----------------------------------------------------------------------------
(* Specification SpecCodec: packInfo and unpackInfo applied to the times,   *)
(* sequence numbers and compression methods of a bounded set, and          *)
(* unpackInfo to byte sequences of other lengths                           *)

\* times at or after the epoch, in tenths of a millisecond
CodecTimes == {0, 9, 10, 12345, 2560 * 10 - 1, 2147483647}
\* sequence numbers on both sides of the byte boundaries
CodecSequences ==
  {0, 1, 255, 256, 65535, 65536, 16777215, 16777216, 123456789, 2147483647}
CodecCompressionMethods == {noCompression, snappyCompression, 255}
\* lengths other than that of a meta-header
OtherLengths == {0, 1, 23, 25}

InitCodec ==
  /\ now \in CodecTimes
  /\ \E i \in CodecSequences, c \in CodecCompressionMethods :
       hist = [i |-> i, compressionMethod |-> c]
  /\ a = NewAgent(DEBUG, LineLength, 2 * LineLength)
  /\ r = NewRequest(a, "Users#index", "0f0e", 0)
  /\ outcome = "none"
  /\ wire = <<>>
  /\ resp = [header |-> EmptyMap]
  /\ Quiet(r)

codecUnchanged ==
  UNCHANGED <<a, r, outcome, hist, wire, now, resp, pc, local, mutex, amutex,
              lin, added>>

\* data := packInfo(t, i, compressionMethod)
PackInfo ==
  /\ returned = Nothing
  /\ returned' = [op |-> "packInfo",
                  data |-> packInfo(now, hist.i, hist.compressionMethod)]
  /\ codecUnchanged

\* info := unpackInfo(data), for the data that packInfo returned
UnpackInfo ==
  /\ returned # Nothing
  /\ returned.op = "packInfo"
  /\ returned' = [op |-> "unpackInfo", data |-> returned.data,
                  info |-> unpackInfo(returned.data)]
  /\ codecUnchanged

\* info := unpackInfo(data), for data cut or padded to another length
UnpackOther(len) ==
  /\ returned # Nothing
  /\ returned.op = "packInfo"
  /\ LET data == SubSeq(returned.data \o <<0>>, 1, len)
     IN returned' = [op |-> "unpackInfo", data |-> data,
                     info |-> unpackInfo(data)]
  /\ codecUnchanged

NextCodec ==
  \/ PackInfo
  \/ UnpackInfo
  \/ \E len \in OtherLengths : UnpackOther(len)

SpecCodec == InitCodec /\ [][NextCodec]_vars

----------------------------------------------------------------------------
(* Connection specs. A string is the sequence of its characters.           *)

DigitChars == <<"0", "1", "2", "3", "4", "5", "6", "7", "8", "9">>
Digits == {DigitChars[k] : k \in 1..10}
DigitValue(c) == CHOOSE v \in 0..9 : DigitChars[v + 1] = c

\* strconv.Itoa
RECURSIVE ItoaDigits(_)
ItoaDigits(n) ==
  IF n < 10 THEN <<DigitChars[n + 1]>>
  ELSE ItoaDigits(n \div 10) \o <<DigitChars[(n % 10) + 1]>>

Itoa(n) == IF n < 0 THEN <<"-">> \o ItoaDigits(0 - n) ELSE ItoaDigits(n)

tcpProtocol == <<"t", "c", "p">>
inprocProtocol == <<"i", "n", "p", "r", "o", "c">>
protocolSeparator == <<":", "/", "/">>

\* [^:] of the first group of connectionSpecMatcher
protocolChar(c) == c # ":"

\* mutant of hostChar: the host may hold a colon
hostCharNotSlash(c) == c # "/"

\* [^:] of the second group of connectionSpecMatcher
hostChar(c) == c # ":"

NoMatch == [nil |-> TRUE]

\* connectionSpecMatcher.FindStringSubmatch(spec) for the pattern
\* \A(?:([^:]+)://)?([^:]+)(?::(\d+))?\z : the ways to cut spec into
\* protocol, host and port, and of these the one the matcher prefers (with
\* the optional group before without it, a longer repetition before a
\* shorter one)
FindStringSubmatch(spec) ==
  LET n == Len(spec)
      protocolEnds ==
        {i \in 1..n : /\ i + 3 <= n
                      /\ \A k \in 1..i : protocolChar(spec[k])
                      /\ SubSeq(spec, i + 1, i + 3) = protocolSeparator}
      hostEnds(i) ==
        LET hs == IF i = 0 THEN 1 ELSE i + 4
        IN {j \in hs..n :
              /\ \A k \in hs..j : hostChar(spec[k])
              /\ \/ j = n
                 \/ /\ j + 2 <= n
                    /\ spec[j + 1] = ":"
                    /\ \A k \in (j + 2)..n : spec[k] \in Digits}
      cuts == {c \in (protocolEnds \cup {0}) \X (1..n) : c[2] \in hostEnds(c[1])}
      preferred ==
        CHOOSE c \in cuts :
          \A d \in cuts : \/ d[1] < c[1]
                          \/ d[1] = c[1] /\ d[2] <= c[2]
  IN IF cuts = {} THEN NoMatch
     ELSE LET i == preferred[1]
              j == preferred[2]
          IN [nil |-> FALSE,
              protocol |-> SubSeq(spec, 1, i),
              host |-> SubSeq(spec, IF i = 0 THEN 1 ELSE i + 4, j),
              port |-> SubSeq(spec, j + 2, n)]

augmentConnectionSpec(spec, defaultPort) ==
  LET matches == FindStringSubmatch(spec)
  IN IF matches.nil THEN spec
     ELSE IF matches.protocol = inprocProtocol THEN spec
     ELSE LET protocol == IF matches.protocol = <<>> THEN tcpProtocol
                          ELSE matches.protocol
              port == IF matches.port = <<>> THEN Itoa(defaultPort)
                      ELSE matches.port
          IN protocol \o protocolSeparator \o matches.host \o <<":">> \o port

----------------------------------------------------------------------------
(* Specification SpecNormalize: augmentConnectionSpec applied once and     *)
(* again to the strings of a bounded set                                    *)

MaxSpecLength == 4

SpecAlphabet == {"h", ":", "/", "8"}
SpecPrefixes ==
  {<<>>, <<"t">>, <<"t">> \o protocolSeparator, inprocProtocol,
   inprocProtocol \o protocolSeparator}
SpecTails ==
  UNION {[1..len -> SpecAlphabet] : len \in 0..MaxSpecLength}
DefaultPorts == {9604, 0, -1}

InitNormalize ==
  /\ \E prefix \in SpecPrefixes, tail \in SpecTails, p \in DefaultPorts :
       hist = [spec |-> prefix \o tail, defaultPort |-> p]
  /\ a = NewAgent(DEBUG, LineLength, 2 * LineLength)
  /\ r = NewRequest(a, "Users#index", "0f0e", 0)
  /\ outcome = "none"
  /\ wire = <<>>
  /\ now = 0
  /\ resp = [header |-> EmptyMap]
  /\ Quiet(r)

normalizeUnchanged ==
  UNCHANGED <<a, r, outcome, hist, wire, now, resp, pc, local, mutex, amutex,
              lin, added>>

\* once := augmentConnectionSpec(spec, defaultPort)
Normalize ==
  /\ returned = Nothing
  /\ returned' = [op |-> "once",
                  once |-> augmentConnectionSpec(hist.spec, hist.defaultPort)]
  /\ normalizeUnchanged

\* twice := augmentConnectionSpec(once, defaultPort)
NormalizeAgain ==
  /\ returned # Nothing
  /\ returned.op = "once"
  /\ returned' = [op |-> "twice", once |-> returned.once,
                  twice |-> augmentConnectionSpec(returned.once,
                                                  hist.defaultPort)]
  /\ normalizeUnchanged

NextNormalize ==
  \/ Normalize
  \/ NormalizeAgain

SpecNormalize == InitNormalize /\ [][NextNormalize]_vars

----------------------------------------------------------------------------
(* Endpoint discovery at agent construction *)

\* strconv.Atoi: an optional sign and decimal digits; x is 0 when err
RECURSIVE AtoiDigits(_)
AtoiDigits(s) ==
  IF s = <<>> THEN 0
  ELSE AtoiDigits(SubSeq(s, 1, Len(s) - 1)) * 10 + DigitValue(s[Len(s)])

Atoi(s) ==
  LET signed == s # <<>> /\ s[1] \in {"+", "-"}
      body == IF signed THEN Tail(s) ELSE s
      err == body = <<>> \/ \E k \in 1..Len(body) : body[k] \notin Digits
  IN [x |-> IF err THEN 0
            ELSE IF signed /\ s[1] = "-" THEN 0 - AtoiDigits(body)
            ELSE AtoiDigits(body),
      err |-> err]

\* the value of *option after the call; s is os.Getenv(name)
setFromEnvUnlessNonZero(option, s, defaultValue) ==
  LET parsed == Atoi(s)
      v == IF s # <<>> /\ parsed.err THEN parsed.x ELSE defaultValue
  IN IF option = 0 THEN v ELSE option

\* the value of *option after the call; s is os.Getenv(name)
setFromEnvUnlessNonEmptyString(option, s, defaultValue) ==
  LET v == IF s # <<>> THEN s ELSE defaultValue
  IN IF option = <<>> THEN v ELSE option

localhost == <<"l", "o", "c", "a", "l", "h", "o", "s", "t">>

\* opts after opts.setSocketDefaults(); env is the environment
setSocketDefaults(opts, env) ==
  LET fromEndpoints ==
        setFromEnvUnlessNonEmptyString(opts.Endpoints,
                                       env.LOGJAM_AGENT_ZMQ_ENDPOINTS, <<>>)
  IN [opts EXCEPT
        !.Endpoints =
          setFromEnvUnlessNonEmptyString(fromEndpoints, env.LOGJAM_BROKER,
                                         localhost),
        !.Port = setFromEnvUnlessNonZero(opts.Port, env.LOGJAM_AGENT_ZMQ_PORT,
                                         9604),
        !.Linger = setFromEnvUnlessNonZero(opts.Linger,
                                           env.LOGJAM_AGENT_ZMQ_LINGER, 1000),
        !.Sndhwm = setFromEnvUnlessNonZero(opts.Sndhwm,
                                           env.LOGJAM_AGENT_ZMQ_SND_HWM, 1000),
        !.Rcvhwm = setFromEnvUnlessNonZero(opts.Rcvhwm,
                                           env.LOGJAM_AGENT_ZMQ_RCV_HWM, 1000),
        !.Sndtimeo = setFromEnvUnlessNonZero(opts.Sndtimeo,
                                             env.LOGJAM_AGENT_ZMQ_SND_TIMEO,
                                             5000),
        !.Rcvtimeo = setFromEnvUnlessNonZero(opts.Rcvtimeo,
                                             env.LOGJAM_AGENT_ZMQ_RCV_TIMEO,
                                             5000)]

\* strings.Split(s, sep) for a separator of one character
RECURSIVE Split(_, _)
Split(s, sep) ==
  IF \A k \in 1..Len(s) : s[k] # sep THEN <<s>>
  ELSE LET first == CHOOSE k \in 1..Len(s) :
                      s[k] = sep /\ \A j \in 1..(k - 1) : s[j] # sep
       IN <<SubSeq(s, 1, first - 1)>>
            \o Split(SubSeq(s, first + 1, Len(s)), sep)

\* the loop of NewAgent over the specs of agent.Endpoints
RECURSIVE appendEndpoints(_, _)
appendEndpoints(specs, port) ==
  IF specs = <<>> THEN <<>>
  ELSE (IF Head(specs) # <<>>
          THEN <<augmentConnectionSpec(Head(specs), port)>> ELSE <<>>)
         \o appendEndpoints(Tail(specs), port)

\* the endpoints part of NewAgent(options)
NewAgentEndpoints(options, env) ==
  LET agent == setSocketDefaults(options, env)
  IN [Endpoints |-> agent.Endpoints, Port |-> agent.Port,
      endpoints |-> appendEndpoints(Split(agent.Endpoints, ","), agent.Port)]

----------------------------------------------------------------------------
(* Specification SpecDiscovery: NewAgent for the options and environments  *)
(* of a bounded set                                                         *)

OptionsEndpoints ==
  {<<>>, <<"f">>, <<"p", ":", "/", "/", "f", ":", "8", ",", "g">>, <<",">>}
OptionsPorts == {0, 3000}
EnvEndpoints == {<<>>, <<"a", ",", "b">>, <<",", "a", ",", ",">>}
EnvBrokers == {<<>>, <<"c">>}
EnvPorts == {<<>>, <<"8", "0">>, <<"x">>}

InitDiscovery ==
  /\ \E e \in OptionsEndpoints, p \in OptionsPorts, ee \in EnvEndpoints,
        eb \in EnvBrokers, ep \in EnvPorts :
       hist = [options |-> [Endpoints |-> e, Port |-> p, Linger |-> 0,
                            Sndhwm |-> 0, Rcvhwm |-> 0, Sndtimeo |-> 0,
                            Rcvtimeo |-> 0],
               env |-> [LOGJAM_AGENT_ZMQ_ENDPOINTS |-> ee,
                        LOGJAM_BROKER |-> eb,
                        LOGJAM_AGENT_ZMQ_PORT |-> ep,
                        LOGJAM_AGENT_ZMQ_LINGER |-> <<>>,
                        LOGJAM_AGENT_ZMQ_SND_HWM |-> <<>>,
                        LOGJAM_AGENT_ZMQ_RCV_HWM |-> <<>>,
                        LOGJAM_AGENT_ZMQ_SND_TIMEO |-> <<>>,
                        LOGJAM_AGENT_ZMQ_RCV_TIMEO |-> <<>>]]
  /\ a = NewAgent(DEBUG, LineLength, 2 * LineLength)
  /\ r = NewRequest(a, "Users#index", "0f0e", 0)
  /\ outcome = "none"
  /\ wire = <<>>
  /\ now = 0
  /\ resp = [header |-> EmptyMap]
  /\ Quiet(r)

\* agent := NewAgent(&options)
NewAgentFromOptions ==
  /\ returned = Nothing
  /\ returned' = NewAgentEndpoints(hist.options, hist.env)
  /\ UNCHANGED <<a, r, outcome, hist, wire, now, resp, pc, local, mutex,
                 amutex, lin, added>>

NextDiscovery == NewAgentFromOptions

SpecDiscovery == InitDiscovery /\ [][NextDiscovery]_vars

----------------------------------------------------------------------------
(* Specification SpecTunables: setSocketDefaults for the integer options   *)
(* and the environment variables of a bounded set                          *)

OptionsTunables == {0, 7}
EnvTunables == {<<>>, <<"8", "0">>, <<"x">>}

InitTunables ==
  /\ \E p, l, sh, rh, st, rt \in OptionsTunables :
     \E ep, el, esh, erh, est, ert \in EnvTunables :
       hist = [options |-> [Endpoints |-> <<>>, Port |-> p, Linger |-> l,
                            Sndhwm |-> sh, Rcvhwm |-> rh, Sndtimeo |-> st,
                            Rcvtimeo |-> rt],
               env |-> [LOGJAM_AGENT_ZMQ_ENDPOINTS |-> <<>>,
                        LOGJAM_BROKER |-> <<>>,
                        LOGJAM_AGENT_ZMQ_PORT |-> ep,
                        LOGJAM_AGENT_ZMQ_LINGER |-> el,
                        LOGJAM_AGENT_ZMQ_SND_HWM |-> esh,
                        LOGJAM_AGENT_ZMQ_RCV_HWM |-> erh,
                        LOGJAM_AGENT_ZMQ_SND_TIMEO |-> est,
                        LOGJAM_AGENT_ZMQ_RCV_TIMEO |-> ert]]
  /\ a = NewAgent(DEBUG, LineLength, 2 * LineLength)
  /\ r = NewRequest(a, "Users#index", "0f0e", 0)
  /\ outcome = "none"
  /\ wire = <<>>
  /\ now = 0
  /\ resp = [header |-> EmptyMap]
  /\ Quiet(r)

\* options.setSocketDefaults()
SetSocketDefaults ==
  /\ returned = Nothing
  /\ returned' = setSocketDefaults(hist.options, hist.env)
  /\ UNCHANGED <<a, r, outcome, hist, wire, now, resp, pc, local, mutex,
                 amutex, lin, added>>

NextTunables == SetSocketDefaults

SpecTunables == InitTunables /\ [][NextTunables]_vars

----------------------------------------------------------------------------
(* Action names. A string is the sequence of its characters.               *)

LowerLetters == <<"a", "b", "c", "d", "e", "f", "g", "h", "i", "j", "k", "l", "m", "n", "o", "p", "q", "r", "s", "t", "u", "v", "w", "x", "y", "z">>
UpperLetters == <<"A", "B", "C", "D", "E", "F", "G", "H", "I", "J", "K", "L", "M", "N", "O", "P", "Q", "R", "S", "T", "U", "V", "W", "X", "Y", "Z">>

IsLower(c) == \E k \in 1..26 : LowerLetters[k] = c
IsUpper(c) == \E k \in 1..26 : UpperLetters[k] = c

\* unicode.ToUpper, unicode.ToTitle and unicode.ToLower for ASCII
ToUpperChar(c) ==
  IF IsLower(c) THEN UpperLetters[CHOOSE k \in 1..26 : LowerLetters[k] = c]
  ELSE c
ToLowerChar(c) ==
  IF IsUpper(c) THEN LowerLetters[CHOOSE k \in 1..26 : UpperLetters[k] = c]
  ELSE c

\* strings.ToLower
ToLower(s) == [k \in 1..Len(s) |-> ToLowerChar(s[k])]

\* isSeparator of package strings: ASCII letters, digits and the underscore
\* are not separators, every other ASCII character is
isSeparator(c) == ~(IsLower(c) \/ IsUpper(c) \/ c \in Digits \/ c = "_")

\* strings.Title: the first character of every word in title case
Title(s) ==
  [k \in 1..Len(s) |->
     IF isSeparator(IF k = 1 THEN " " ELSE s[k - 1]) THEN ToUpperChar(s[k])
     ELSE s[k]]

\* strings.Join
RECURSIVE Join(_, _)
Join(parts, sep) ==
  IF parts = <<>> THEN <<>>
  ELSE IF Len(parts) = 1 THEN parts[1]
  ELSE parts[1] \o sep \o Join(Tail(parts), sep)

\* strings.Replace(s, old, new, -1) for an old of one character
RECURSIVE Replace(_, _, _)
Replace(s, old, new) ==
  IF s = <<>> THEN <<>>
  ELSE (IF Head(s) = old THEN new ELSE <<Head(s)>>)
         \o Replace(Tail(s), old, new)

\* unicode.IsDigit of the first character, for ASCII
ignoreActionName(s) == s # <<>> /\ s[1] \in Digits

\* mutant of formatSegment: the pieces are joined as they are
formatSegmentNoTitle(s) ==
  Join(Split(Replace(s, "_", <<"-">>), "-"), <<>>)

formatSegment(s) ==
  LET parts == Split(Replace(s, "_", <<"-">>), "-")
  IN Join([i \in 1..Len(parts) |-> Title(parts[i])], <<>>)

RECURSIVE defaultParts(_)
defaultParts(splitPath) ==
  IF splitPath = <<>> THEN <<>>
  ELSE LET part == Head(splitPath)
       IN (IF part = <<>> THEN <<>>
           ELSE IF ignoreActionName(part) THEN <<<<"I", "d">>>>
           ELSE <<formatSegment(part)>>)
            \o defaultParts(Tail(splitPath))

defaultActionNameParts(method, path) == defaultParts(Split(path, "/"))

defaultActionNameFrom(method, path) ==
  LET methodStr == ToLower(method)
      parts == defaultActionNameParts(method, path)
  IN IF Len(parts) = 0 THEN <<"U", "n", "k", "n", "o", "w", "n", "#">> \o methodStr
     ELSE Join(parts, <<":", ":">>) \o <<"#">> \o methodStr

RECURSIVE legacyParts(_, _)
legacyParts(method, splitPath) ==
  IF splitPath = <<>> THEN <<>>
  ELSE LET part == Head(splitPath)
       IN (IF part = <<>> THEN <<>>
           ELSE IF ignoreActionName(part) THEN <<<<"b", "y", "_", "i", "d">>>>
           ELSE IF part = <<"v", "1">> THEN <<Title(part), method>>
           ELSE <<Title(part)>>)
            \o legacyParts(method, Tail(splitPath))

legacyActionNameParts(method, path) == legacyParts(method, Split(path, "/"))

\* mutant of legacyClass: an empty class stays empty
legacyClassKeepsEmpty(class) == class

\* if class == "" { class = "Unknown" }
legacyClass(class) == IF class = <<>> THEN <<"U", "n", "k", "n", "o", "w", "n">> ELSE class

legacyActionNameFrom(method, path) ==
  LET parts == legacyActionNameParts(method, path)
  IN IF Len(parts) = 0 THEN <<"U", "n", "k", "n", "o", "w", "n", "#", "u", "n", "k", "n", "o", "w", "n">>
     ELSE LET class == Replace(Join(SubSeq(parts, 1, Len(parts) - 1),
                                    <<":", ":">>), "-", <<>>)
              suffix == Replace(ToLower(parts[Len(parts)]), "-", <<"_">>)
          IN legacyClass(class) \o <<"#">> \o suffix

----------------------------------------------------------------------------
(* Specification SpecActionNames: both extractors applied to the methods   *)
(* and paths of a bounded set                                               *)

MaxSegments == 3

Methods == {<<"G", "E", "T">>, <<"P", "o", "s", "t">>}
PathSegments ==
  {<<>>,
   <<"u", "s", "e", "r", "s">>,
   <<"1", "2", "3">>,
   <<"f", "r", "i", "e", "n", "d", "s">>,
   <<"_", "s", "y", "s", "t", "e", "m">>,
   <<"a", "l", "i", "v", "e">>,
   <<"v", "1">>,
   <<"a", "-", "b">>,
   <<"_">>,
   <<"-">>,
   <<"x", ".", "y">>}
SegmentLists == UNION {[1..n -> PathSegments] : n \in 0..MaxSegments}
EscapedPaths == {<<>>} \cup {<<"/">> \o Join(l, <<"/">>) : l \in SegmentLists}

InitActionNames ==
  /\ \E method \in Methods, path \in EscapedPaths :
       hist = [method |-> method, path |-> path]
  /\ a = NewAgent(DEBUG, LineLength, 2 * LineLength)
  /\ r = NewRequest(a, "Users#index", "0f0e", 0)
  /\ outcome = "none"
  /\ wire = <<>>
  /\ now = 0
  /\ resp = [header |-> EmptyMap]
  /\ Quiet(r)

actionNamesUnchanged ==
  UNCHANGED <<a, r, outcome, hist, wire, now, resp, pc, local, mutex, amutex,
              lin, added>>

\* name := defaultActionNameFrom(method, path)
DefaultActionNameExtractor ==
  /\ returned = Nothing
  /\ returned' = [op |-> "default",
                  name |-> defaultActionNameFrom(hist.method, hist.path)]
  /\ actionNamesUnchanged

\* name := legacyActionNameFrom(method, path)
LegacyActionNameExtractor ==
  /\ returned = Nothing
  /\ returned' = [op |-> "legacy",
                  name |-> legacyActionNameFrom(hist.method, hist.path)]
  /\ actionNamesUnchanged

NextActionNames ==
  \/ DefaultActionNameExtractor
  \/ LegacyActionNameExtractor

SpecActionNames == InitActionNames /\ [][NextActionNames]_vars

----------------------------------------------------------------------------
(* Specification SpecHeaders: ChangeAction on the Request of a handler and *)
(* SetLogjamHeaders on the outgoing requests the handler makes             *)

\* what hasContext.Context().Value(requestKey) holds: the Request, nothing,
\* or a value of another type
ContextValues == {"request", "nil", "other"}

\* outgoing requests: without a Header map, with an empty one, and with
\* headers already set
OutgoingRequests ==
  {[HeaderNil |-> TRUE, Header |-> EmptyMap],
   [HeaderNil |-> FALSE, Header |-> EmptyMap],
   [HeaderNil |-> FALSE,
    Header |-> MapSet(MapSet(EmptyMap, "Accept", "text/html"),
                      "X-Logjam-Action", "Stale#action")]}

\* mutant of SetLogjamHeaders: the two values change places
SetLogjamHeadersSwapped(value, incoming, outgoing) ==
  IF value = "request"
    THEN [HeaderNil |-> FALSE,
          Header |-> MapSet(MapSet(outgoing.Header, "X-Logjam-Caller-Id",
                                   incoming.action),
                            "X-Logjam-Action", incoming.id)]
  ELSE outgoing

\* the outgoing request after SetLogjamHeaders(hasContext, outgoing); value
\* is what the context holds under requestKey and incoming the Request
SetLogjamHeaders(value, incoming, outgoing) ==
  IF value = "request"
    THEN [HeaderNil |-> FALSE,
          Header |-> MapSet(MapSet(outgoing.Header, "X-Logjam-Caller-Id",
                                   incoming.id),
                            "X-Logjam-Action", incoming.action)]
  ELSE outgoing

InitHeaders ==
  /\ a = NewAgent(DEBUG, LineLength, 2 * LineLength)
  /\ now = 0
  /\ r = NewRequest(a, "Users#index", "0f0e", now)
  /\ outcome = "none"
  /\ \E value \in ContextValues, outgoing \in OutgoingRequests :
       /\ hist = MapMerge(NoHistory(r), [ctx |-> value, outgoing |-> outgoing])
       /\ returned = outgoing
  /\ wire = <<>>
  /\ resp = [header |-> MapSet(EmptyMap, "X-Logjam-Action", r.action)]
  /\ pc = [g \in Goroutines |-> "idle"]
  /\ local = [g \in Goroutines |-> NoCall]
  /\ mutex = "free"
  /\ amutex = "free"
  /\ lin = r
  /\ added = NothingAdded

\* request.ChangeAction(w, action) in the handler
HandlerChangesAction(action) ==
  /\ hist.n < MaxCalls
  /\ r' = ChangeActionBody(r, action)
  /\ resp' = [resp EXCEPT !.header = MapSet(@, "X-Logjam-Action", action)]
  /\ outcome' = "ChangeAction"
  /\ hist' = [hist EXCEPT !.n = @ + 1, !.before = r, !.changed = <<action>>]
  /\ UNCHANGED <<a, wire, now>>
  /\ UNCHANGED concVars

\* SetLogjamHeaders(hasContext, outgoing) on a new outgoing request
HandlerSetsLogjamHeaders(outgoing) ==
  /\ hist.n < MaxCalls
  /\ returned' = SetLogjamHeaders(hist.ctx, r, outgoing)
  /\ outcome' = "SetLogjamHeaders"
  /\ hist' = [hist EXCEPT !.n = @ + 1, !.before = r, !.outgoing = outgoing]
  /\ UNCHANGED <<a, r, wire, now, resp, pc, local, mutex, amutex, lin, added>>

NextHeaders ==
  \/ \E action \in Actions : HandlerChangesAction(action)
  \/ \E outgoing \in OutgoingRequests : HandlerSetsLogjamHeaders(outgoing)

SpecHeaders == InitHeaders /\ [][NextHeaders]_vars

----------------------------------------------------------------------------
(* Specification SpecRace: the goroutine of the middleware and a goroutine *)
(* the handler has started call mutators, ChangeAction and Finish on one   *)
(* Request.  ChangeAction and Finish take no mutex: their statements run   *)
(* one by one between the statements of any other call.                    *)

\* the goroutine that runs the handler and, after it, Finish
Middleware == "g1"

GuardedCalls ==
  {[name |-> "Log", severity |-> ERROR, line |-> RawLine(LineLength \div 2)],
   [name |-> "AddCount", key |-> "db", value |-> 2]}
UnguardedCalls ==
  {[name |-> "ChangeAction", action |-> action] : action \in Actions}
  \cup {[name |-> "Finish", code |-> 200]}

InitRace ==
  /\ a = NewAgent(INFO, LineLength, LineLength)
  /\ now = 30
  /\ r = NewRequest(a, "Users#index", "0f0e", 0)
  /\ outcome = "none"
  /\ hist = NoHistory(r)
  /\ wire = <<>>
  /\ resp = [header |-> MapSet(EmptyMap, "X-Logjam-Action", r.action)]
  /\ Quiet(r)

\* goroutine g calls ChangeAction or Finish: it arrives at the first
\* statement of the body, there is no Lock
UnguardedCall(g, call) ==
  /\ pc[g] = "idle"
  /\ hist.n < MaxCalls
  /\ call.name = "Finish" => g = Middleware /\ hist.finished = 0
  /\ pc' = [pc EXCEPT ![g] = IF call.name = "Finish" THEN "finish_endtime"
                              ELSE "action_write"]
  /\ local' = [local EXCEPT ![g] = call]
  /\ hist' = [hist EXCEPT !.n = @ + 1,
                          !.finished = IF call.name = "Finish" THEN 1 ELSE @]
  /\ UNCHANGED <<r, outcome, mutex, lin, added>>
  /\ reqUnchanged

\* r.action = action
ActionWrite(g) ==
  /\ Step(g, "action_write", ChangeActionBody(r, local[g].action),
          "header_write")
  /\ UNCHANGED local

\* w.Header().Set("X-Logjam-Action", action), and the return
HeaderWrite(g) ==
  /\ pc[g] = "header_write"
  /\ resp' = [resp EXCEPT
                !.header = MapSet(@, "X-Logjam-Action", local[g].action)]
  /\ pc' = [pc EXCEPT ![g] = "idle"]
  /\ local' = [local EXCEPT ![g] = NoCall]
  /\ UNCHANGED <<a, r, outcome, hist, wire, now, mutex, amutex, lin, added,
                 returned>>

\* r.endTime = time.Now()
FinishEndTime(g) ==
  /\ Step(g, "finish_endtime", [r EXCEPT !.endTime = now], "payload_fixed")
  /\ local' = [local EXCEPT ![g] =
                 [name |-> "Finish", code |-> @.code, msg |-> EmptyMap,
                  seen |-> <<>>]]

\* a statement of logjamPayload: it reads the Request as it is now and
\* merges part into msg
PayloadStep(g, at, part, next) ==
  /\ Step(g, at, r, next)
  /\ local' = [local EXCEPT ![g].msg = MapMerge(@, part),
                            ![g].seen = Append(@, r)]

PayloadFixed(g) ==
  PayloadStep(g, "payload_fixed", payloadFixed(r, local[g].code),
              "payload_lines")

PayloadLines(g) ==
  PayloadStep(g, "payload_lines", payloadLines(r), "payload_exceptions")

PayloadExceptions(g) ==
  PayloadStep(g, "payload_exceptions",
              MapMerge(payloadExceptions(r), requestEnv), "payload_durations")

PayloadDurations(g) ==
  PayloadStep(g, "payload_durations", scaledDurations(r), "payload_counts")

PayloadCounts(g) ==
  PayloadStep(g, "payload_counts", r.counts, "payload_fields")

PayloadFields(g) ==
  /\ pc[g] = "payload_fields"
  /\ Step(g, "payload_fields", r, "finish_send")
  /\ local' = [local EXCEPT ![g].msg = mergeFields(@, r.fields),
                            ![g].seen = Append(@, r)]

\* json.Marshal, snappy.Encode and r.agent.sendMessage, and the return
FinishSend(g) ==
  /\ pc[g] = "finish_send"
  /\ LET sent == sendMessage(a, wire,
                             snappyEncode(jsonMarshal(local[g].msg)), now,
                             TRUE, TRUE)
     IN /\ a' = sent.a
        /\ wire' = sent.wire
  /\ returned' = [payload |-> local[g].msg, code |-> local[g].code,
                  seen |-> local[g].seen]
  /\ pc' = [pc EXCEPT ![g] = "idle"]
  /\ local' = [local EXCEPT ![g] = NoCall]
  /\ UNCHANGED <<r, outcome, hist, now, resp, mutex, amutex, lin, added>>

NextRace ==
  \E g \in Goroutines :
    \/ \E call \in GuardedCalls : Call(g, call)
    \/ \E call \in UnguardedCalls : UnguardedCall(g, call)
    \/ Lock(g)
    \/ LogSeverity(g)
    \/ LogCountStep(g)
    \/ LogAppendStep(g)
    \/ CountRead(g)
    \/ CountWrite(g)
    \/ Unlock(g)
    \/ ActionWrite(g)
    \/ HeaderWrite(g)
    \/ FinishEndTime(g)
    \/ PayloadFixed(g)
    \/ PayloadLines(g)
    \/ PayloadExceptions(g)
    \/ PayloadDurations(g)
    \/ PayloadCounts(g)
    \/ PayloadFields(g)
    \/ FinishSend(g)

SpecRace == InitRace /\ [][NextRace]_vars

----------------------------------------------------------------------------
(* Specification SpecMeasure: two goroutines call MeasureDuration and      *)
(* Finish on one Request.  local[g] is the stack of the calls goroutine g  *)
(* is in; a thunk is a sequence of operations: a call of AddDuration, a    *)
(* nested MeasureDuration with a thunk of its own, or a panic.             *)

MaxMeasures == 2

ThunkAddDuration == [op |-> "AddDuration", key |-> "db", value |-> 25]
ThunkPanic == [op |-> "panic"]
InnerThunks == {<<>>, <<ThunkAddDuration>>, <<ThunkPanic>>}
Thunks ==
  InnerThunks
  \cup {<<[op |-> "MeasureDuration", key |-> "db", thunk |-> t]>> :
          t \in InnerThunks \ {<<>>}}
MeasureKeys == {"db"}
\* the time f() takes, in tenths of a millisecond
ThunkTimes == {5}

\* mutant of mutexDuringThunk: f() runs between Lock and Unlock
mutexHeldDuringThunk(g, m) == g

\* the Request's mutex when MeasureDuration calls f(): as it was
mutexDuringThunk(g, m) == m

Top(g) == local[g][Len(local[g])]
Push(g, frame) == [local EXCEPT ![g] = Append(@, frame)]
Pop(g) == [local EXCEPT ![g] = SubSeq(@, 1, Len(@) - 1)]
ReplaceTop(g, frame) == [local EXCEPT ![g][Len(local[g])] = frame]

MeasureFrame(key, thunk, t) ==
  [name |-> "MeasureDuration", key |-> key, ops |-> thunk, beginning |-> t,
   panicking |-> FALSE]
AddDurationFrame(key, value, deferred) ==
  [name |-> "AddDuration", key |-> key, value |-> value,
   deferred |-> deferred, set |-> FALSE, tmp |-> 0]

InitMeasure ==
  /\ a = NewAgent(INFO, LineLength, LineLength)
  /\ now = 0
  /\ r = NewRequest(a, "Users#index", "0f0e", now)
  /\ outcome = "none"
  /\ hist = [n |-> 0, panics |-> 0, finished |-> 0]
  /\ wire = <<>>
  /\ resp = [header |-> EmptyMap]
  /\ pc = [g \in Goroutines |-> "idle"]
  /\ local = [g \in Goroutines |-> <<>>]
  /\ mutex = "free"
  /\ amutex = "free"
  /\ lin = r
  /\ added = NothingAdded
  /\ returned = Nothing

measureUnchanged == UNCHANGED <<a, outcome, wire, resp, lin, returned>>

\* r.MeasureDuration(key, f): beginning := time.Now(), the deferred call is
\* registered and f() begins
MeasureDuration(g, key, thunk) ==
  /\ pc[g] = "idle"
  /\ hist.n < MaxMeasures
  /\ hist' = [hist EXCEPT !.n = @ + 1]
  /\ local' = Push(g, MeasureFrame(key, thunk, now))
  /\ pc' = [pc EXCEPT ![g] = "thunk"]
  /\ mutex' = mutexDuringThunk(g, mutex)
  /\ UNCHANGED <<r, now, amutex, added>>
  /\ measureUnchanged

\* f() calls r.AddDuration(key, value): it arrives at r.mutex.Lock()
ThunkCallsAddDuration(g) ==
  /\ pc[g] = "thunk"
  /\ Top(g).ops # <<>>
  /\ Head(Top(g).ops).op = "AddDuration"
  /\ LET op == Head(Top(g).ops)
     IN /\ local' = [local EXCEPT ![g] =
                       Append(SubSeq(@, 1, Len(@) - 1),
                              [Top(g) EXCEPT !.ops = Tail(@)])
                         \o <<AddDurationFrame(op.key, op.value, FALSE)>>]
        /\ added' = [added EXCEPT
                       !.durations = Plus(@, op.key, op.value),
                       !.contended = @ \/ mutex # "free"]
  /\ pc' = [pc EXCEPT ![g] = "lock"]
  /\ UNCHANGED <<r, now, hist, mutex, amutex>>
  /\ measureUnchanged

\* f() calls r.MeasureDuration(key, f2)
ThunkCallsMeasureDuration(g) ==
  /\ pc[g] = "thunk"
  /\ Top(g).ops # <<>>
  /\ Head(Top(g).ops).op = "MeasureDuration"
  /\ LET op == Head(Top(g).ops)
     IN local' = [local EXCEPT ![g] =
                    Append(SubSeq(@, 1, Len(@) - 1),
                           [Top(g) EXCEPT !.ops = Tail(@)])
                      \o <<MeasureFrame(op.key, op.thunk, now)>>]
  /\ mutex' = mutexDuringThunk(g, mutex)
  /\ UNCHANGED <<r, now, hist, pc, amutex, added>>
  /\ measureUnchanged

\* f() panics at dt after the last event: the deferred function of
\* MeasureDuration runs
ThunkPanics(g, dt) ==
  /\ pc[g] = "thunk"
  /\ Top(g).ops # <<>>
  /\ Head(Top(g).ops).op = "panic"
  /\ now' = now + dt
  /\ local' = ReplaceTop(g, [Top(g) EXCEPT !.ops = <<>>, !.panicking = TRUE])
  /\ pc' = [pc EXCEPT ![g] = "deferred"]
  /\ UNCHANGED <<r, hist, mutex, amutex, added>>
  /\ measureUnchanged

\* f() returns at dt after the last event: the deferred function of
\* MeasureDuration runs
ThunkReturns(g, dt) ==
  /\ pc[g] = "thunk"
  /\ Top(g).ops = <<>>
  /\ now' = now + dt
  /\ pc' = [pc EXCEPT ![g] = "deferred"]
  /\ UNCHANGED <<r, hist, local, mutex, amutex, added>>
  /\ measureUnchanged

\* the deferred func() { r.AddDuration(key, time.Since(beginning)) }: the
\* argument is computed and AddDuration arrives at r.mutex.Lock()
DeferredAddDuration(g) ==
  /\ pc[g] = "deferred"
  /\ LET value == now - Top(g).beginning
     IN /\ local' = Push(g, AddDurationFrame(Top(g).key, value, TRUE))
        /\ added' = [added EXCEPT
                       !.durations = Plus(@, Top(g).key, value),
                       !.contended = @ \/ mutex # "free"]
  /\ pc' = [pc EXCEPT ![g] = "lock"]
  /\ UNCHANGED <<r, now, hist, mutex, amutex>>
  /\ measureUnchanged

MeasureLock(g) ==
  /\ pc[g] = "lock"
  /\ MutexFree(mutex)
  /\ mutex' = g
  /\ pc' = [pc EXCEPT ![g] = "duration_read"]
  /\ UNCHANGED <<r, now, hist, local, amutex, added>>
  /\ measureUnchanged

\* _, set := r.durations[key]
MeasureDurationRead(g) ==
  /\ pc[g] = "duration_read"
  /\ local' = ReplaceTop(g, [Top(g) EXCEPT
                 !.set = Top(g).key \in DOMAIN r.durations,
                 !.tmp = IF Top(g).key \in DOMAIN r.durations
                         THEN r.durations[Top(g).key] ELSE 0])
  /\ pc' = [pc EXCEPT ![g] = "duration_write"]
  /\ UNCHANGED <<r, now, hist, mutex, amutex, added>>
  /\ measureUnchanged

\* r.durations[key] += value, or r.durations[key] = value
MeasureDurationWrite(g) ==
  /\ pc[g] = "duration_write"
  /\ r' = [r EXCEPT !.durations =
             MapSet(@, Top(g).key,
                    IF Top(g).set THEN Top(g).tmp + Top(g).value
                    ELSE Top(g).value)]
  /\ pc' = [pc EXCEPT ![g] = "unlock"]
  /\ UNCHANGED <<now, hist, local, mutex, amutex, added>>
  /\ measureUnchanged

\* the stack and the position of g after the call on top of the stack has
\* ended; a panicking MeasureDuration ends the function that called it, too
RECURSIVE Unwind(_, _)
Unwind(stack, panicking) ==
  IF stack = <<>>
    THEN [stack |-> <<>>, pc |-> "idle", panicked |-> panicking]
  ELSE IF ~panicking THEN [stack |-> stack, pc |-> "thunk", panicked |-> FALSE]
  ELSE [stack |-> Append(SubSeq(stack, 1, Len(stack) - 1),
                         [stack[Len(stack)] EXCEPT !.ops = <<>>,
                                                   !.panicking = TRUE]),
        pc |-> "deferred", panicked |-> FALSE]

\* the deferred r.mutex.Unlock() of AddDuration and its return; after the
\* deferred call of MeasureDuration, MeasureDuration ends as well
MeasureUnlock(g) ==
  /\ pc[g] = "unlock"
  /\ mutex' = "free"
  /\ LET below == SubSeq(local[g], 1, Len(local[g]) - 1)
         after == IF Top(g).deferred
                  THEN Unwind(SubSeq(below, 1, Len(below) - 1),
                              below[Len(below)].panicking)
                  ELSE [stack |-> below, pc |-> "thunk", panicked |-> FALSE]
     IN /\ local' = [local EXCEPT ![g] = after.stack]
        /\ pc' = [pc EXCEPT ![g] = after.pc]
        /\ hist' = [hist EXCEPT
                      !.panics = IF after.panicked THEN @ + 1 ELSE @]
  /\ UNCHANGED <<r, now, amutex, added>>
  /\ measureUnchanged

\* r.Finish(code) up to r.agent.sendMessage(data): it arrives at
\* a.mutex.Lock(); the Request's mutex is not taken
MeasureFinish(g) ==
  /\ pc[g] = "idle"
  /\ g = Middleware
  /\ hist.finished = 0
  /\ hist' = [hist EXCEPT !.finished = 1]
  /\ r' = [r EXCEPT !.endTime = now]
  /\ local' = Push(g, [name |-> "Finish",
                       payload |-> logjamPayload(r', 200)])
  /\ pc' = [pc EXCEPT ![g] = "agent_lock"]
  /\ UNCHANGED <<now, mutex, amutex, added>>
  /\ measureUnchanged

MeasureAgentLock(g) ==
  /\ pc[g] = "agent_lock"
  /\ AgentMutexFree(amutex)
  /\ amutex' = g
  /\ pc' = [pc EXCEPT ![g] = "agent_send"]
  /\ UNCHANGED <<r, now, hist, local, mutex, added>>
  /\ measureUnchanged

\* the body of sendMessage, the deferred a.mutex.Unlock() and the return
MeasureAgentSend(g) ==
  /\ pc[g] = "agent_send"
  /\ LET sent == sendMessage(a, wire,
                             snappyEncode(jsonMarshal(Top(g).payload)), now,
                             TRUE, TRUE)
     IN /\ a' = sent.a
        /\ wire' = sent.wire
  /\ amutex' = "free"
  /\ local' = Pop(g)
  /\ pc' = [pc EXCEPT ![g] = "idle"]
  /\ UNCHANGED <<r, now, hist, mutex, added, outcome, resp, lin, returned>>

NextMeasure ==
  \E g \in Goroutines :
       \/ \E key \in MeasureKeys, thunk \in Thunks :
            MeasureDuration(g, key, thunk)
       \/ ThunkCallsAddDuration(g)
       \/ ThunkCallsMeasureDuration(g)
       \/ \E dt \in ThunkTimes : ThunkPanics(g, dt)
       \/ \E dt \in ThunkTimes : ThunkReturns(g, dt)
       \/ DeferredAddDuration(g)
       \/ MeasureLock(g)
       \/ MeasureDurationRead(g)
       \/ MeasureDurationWrite(g)
       \/ MeasureUnlock(g)
       \/ MeasureFinish(g)
       \/ MeasureAgentLock(g)
       \/ MeasureAgentSend(g)

SpecMeasure == InitMeasure /\ [][NextMeasure]_vars

----------------------------------------------------------------------------
(* Claims about Log, checked under Spec *)

Message(entry) == entry[2]
SeverityOf(entry) == entry[1]

Sentinels(lines) == {i \in 1..Len(lines) : Message(lines[i]) = linesTruncated}

RECURSIVE SumOfLengths(_)
SumOfLengths(lines) ==
  IF lines = <<>> THEN 0
  ELSE Len(Message(Head(lines))) + SumOfLengths(Tail(lines))

\* C1: the log buffer holds at most one entry whose message is the marker
\* "... [LINES DROPPED]"; when there is one it is the last entry (so nothing
\* was appended after it).
C1_OneSentinelAndLast ==
  /\ Cardinality(Sentinels(r.logLines)) <= 1
  /\ \A i \in Sentinels(r.logLines) : i = Len(r.logLines)

\* C2: the lengths of the stored messages sum to at most
\* MaxBytesAllLines + len("... [LINES DROPPED]").
C2_StoredBytesBounded ==
  SumOfLengths(r.logLines) <= a.MaxBytesAllLines + Len(linesTruncated)

\* every Log call so far was made with a line of exactly MaxLineLength bytes
\* and a severity at or above the agent's LogLevel
OnlyFullLinesLogged ==
  /\ hist.lens = {a.MaxLineLength}
  /\ \A s \in hist.sevs : ClampSeverity(s) >= a.LogLevel

\* C3: when MaxLineLength divides MaxBytesAllLines and at least
\* 1 + MaxBytesAllLines/MaxLineLength lines of exactly MaxLineLength bytes
\* were logged on a fresh Request, the buffer holds exactly
\* MaxBytesAllLines/MaxLineLength + 1 entries and the last one is the marker
\* "... [LINES DROPPED]".
C3_FullLinesFillBuffer ==
  ( /\ a.MaxBytesAllLines % a.MaxLineLength = 0
    /\ OnlyFullLinesLogged
    /\ hist.n >= 1 + a.MaxBytesAllLines \div a.MaxLineLength )
  => /\ Len(r.logLines) = a.MaxBytesAllLines \div a.MaxLineLength + 1
     /\ Message(r.logLines[Len(r.logLines)]) = linesTruncated

\* the last Log call was one whose own line is to be stored: its severity is
\* at or above LogLevel and the byte count stays below MaxBytesAllLines
LastLineToBeStored ==
  /\ hist.n > 0
  /\ ClampSeverity(hist.severity) >= a.LogLevel
  /\ hist.before.logLinesBytesCount + Len(hist.line) < a.MaxBytesAllLines

\* C4: every stored message is at most MaxLineLength long; a raw line longer
\* than MaxLineLength is stored as its first MaxLineLength-21 bytes followed
\* by " ... [LINE TRUNCATED]", of length MaxLineLength, and a raw line of at
\* most MaxLineLength bytes is stored unchanged.
C4_StoredLineFormat ==
  /\ \A i \in 1..Len(r.logLines) :
       Len(Message(r.logLines[i])) <= a.MaxLineLength
  /\ LastLineToBeStored =>
       /\ Len(r.logLines) = Len(hist.before.logLines) + 1
       /\ LET stored == Message(r.logLines[Len(r.logLines)])
          IN IF Len(hist.line) > a.MaxLineLength
             THEN /\ stored = SubSeq(hist.line, 1, a.MaxLineLength - 21)
                                \o " ... [LINE TRUNCATED]"
                  /\ Len(stored) = a.MaxLineLength
             ELSE stored = hist.line

\* the severity a call with raw severity s counts as, written out
Clamped(s) == IF s < 0 THEN 0 ELSE IF s > 4 THEN 4 ELSE s
Highest(S) == CHOOSE m \in S : \A x \in S : x <= m

\* C5: the Request's severity and the severity of every stored line are in
\* 0..4 whatever integers Log is called with; the Request's severity never
\* decreases and equals the maximum of INFO and the clamped severities of all
\* Log calls so far.
C5_SeverityWatermark ==
  /\ r.severity \in 0..4
  /\ \A i \in 1..Len(r.logLines) : SeverityOf(r.logLines[i]) \in 0..4
  /\ r.severity >= hist.before.severity
  /\ r.severity = Highest({1} \cup {Clamped(s) : s \in hist.sevs})

\* C5's case: Log was called below DEBUG and above FATAL, a line logged below
\* DEBUG is stored, and the watermark went up to FATAL
C5_Witness ==
  /\ DEBUG - 1 \in hist.sevs
  /\ FATAL + 1 \in hist.sevs
  /\ r.severity = FATAL
  /\ hist.before.severity < FATAL
  /\ \E i \in 1..Len(r.logLines) : SeverityOf(r.logLines[i]) = DEBUG

----------------------------------------------------------------------------
(* Claims about calls after Finish, checked under SpecAPI *)

\* what the mutators write to
Observations(req) ==
  <<req.logLines, req.logLinesBytesCount, req.severity, req.counts,
    req.durations, req.fields, req.exceptions, req.action>>

\* C7: once Finish has been called on a Request, every later call of Log,
\* AddCount, AddDuration, SetField, AddException or ChangeAction leaves the
\* log buffer, the byte count, the severity, the counters, the durations, the
\* fields, the exceptions and the action as Finish left them.
C7_DroppedAfterFinish ==
  hist.finished > 0 => Observations(r) = Observations(hist.atFinish)

----------------------------------------------------------------------------
(* Claims about concurrent calls, checked under SpecConc *)

AllIdle == \A g \in Goroutines : pc[g] = "idle"

\* C6: under any interleaving of concurrent Log, AddCount, Count,
\* AddDuration, SetField and AddException calls on one Request, the Request
\* is, whenever no call is inside its body, what the calls made so far give
\* when run one after the other in some order (the order in which they took
\* the mutex); and when all calls have returned, every counter and every
\* timer equals the sum of the values added to it.
C6_CallsAreAtomic ==
  /\ mutex = "free" => r = lin
  /\ AllIdle => /\ r.counts = added.counts
                /\ r.durations = added.durations

\* C6's case: all calls have returned, a call was made while another
\* goroutine was inside a body, and the counter was added to more than once
C6_Witness ==
  /\ AllIdle
  /\ hist.n = MaxCalls
  /\ added.contended
  /\ "db" \in DOMAIN r.counts
  /\ r.counts["db"] >= 3
  /\ Len(r.logLines) >= 1

----------------------------------------------------------------------------
(* Claims about the transport, checked under SpecAgent *)

\* the meta-header is the last frame of a frame set
MetaOf(frames) == unpackInfo(frames[Len(frames)])

\* C8: under any interleaving of concurrent sendMessage and Shutdown calls on
\* one agent, the k-th frame set handed to socket.SendMessage (messages and
\* the ping alike, whether or not SendMessage then succeeds) carries the
\* sequence number k in its meta-header; so the numbers start at 1, increase
\* strictly in the order of the hand-over, and none is used twice.
C8_SequenceInOrderOfSending ==
  /\ \A k \in 1..Len(wire) : MetaOf(wire[k].frames).Sequence = k
  /\ \A j, k \in 1..Len(wire) :
       j < k => MetaOf(wire[j].frames).Sequence
                  < MetaOf(wire[k].frames).Sequence

\* C8's case: a call arrived while another goroutine held the agent's mutex,
\* and messages were handed over before and after the ping
C8_Witness ==
  /\ hist.contended
  /\ Len(wire) >= 3
  /\ \E k \in 2..(Len(wire) - 1) : Len(wire[k].frames) = 5
  /\ Len(wire[Len(wire)].frames) = 4
  /\ MetaOf(wire[Len(wire)].frames).Sequence = Len(wire)

SendsEnded == {c \in hist.done : c.name = "sendMessage"}

----------------------------------------------------------------------------
(* Claims about the middleware, checked under SpecHTTP *)

\* C10: for every HTTP request the middleware has handled, exactly one
\* message was handed to the transport and Finish was called once, whether
\* the handler returned or panicked; after a panic of the handler the message
\* has severity FATAL, code 500 and a FATAL line with the recovered value,
\* and the panic raised again is the handler's.
C10_OneMessagePerHTTPRequest ==
  \A d \in hist.done :
    /\ d.finishes = 1
    /\ Len(d.messages) = 1
    /\ d.handlerPanicked =>
         /\ d.messages[1]["Severity"] = FATAL
         /\ d.messages[1]["Code"] = 500
         /\ \E i \in 1..Len(d.messages[1]["Lines"]) :
              d.messages[1]["Lines"][i] = <<FATAL, GoSyntax(d.value)>>
         /\ d.raised = d.value

----------------------------------------------------------------------------
(* Claims about the payload, checked under SpecPayload *)

PayloadBuilt == returned # Nothing

\* the duration keys whose value no counter and no field has replaced
EmittedDurations ==
  DOMAIN r.durations \ (DOMAIN r.counts \cup DOMAIN r.fields)

RECURSIVE SumOfEmitted(_, _)
SumOfEmitted(payload, keys) ==
  IF keys = {} THEN 0
  ELSE LET k == CHOOSE x \in keys : TRUE
       IN payload[k].ms * payload[k].factor[1]
            + SumOfEmitted(payload, keys \ {k})

\* the denominator of the factor, which is the same for every duration
FactorDenominator == durationCorrectionFactor(r, totalTime(r))[2]

Shown(v) == ToString(v)

\* the fixed keys of a payload and their values
FixedValue(k) ==
  CASE k = "action" -> r.action
    [] k = "code" -> returned.code
    [] k = "request_id" -> r.uuid
    [] k = "trace_id" -> r.traceID
    [] k = "severity" -> r.severity
    [] k = "started_ms" -> r.startTime \div 10
    [] k = "total_time" -> totalTime(r)

\* C12: in the payload fields are merged last: every key set by SetField
\* has the field's value, also when it is a fixed key, an environment tag, a
\* duration key or a counter key; of the others a counter wins over a
\* duration, a duration over an environment tag, a tag over a fixed key.
C12_FieldsMergedLast ==
  PayloadBuilt =>
    /\ DOMAIN r.fields \cup DOMAIN r.counts \cup DOMAIN r.durations
         \cup DOMAIN requestEnv \subseteq DOMAIN returned.payload
    /\ \A k \in DOMAIN returned.payload :
         Shown(returned.payload[k]) =
           Shown(IF k \in DOMAIN r.fields THEN r.fields[k]
                 ELSE IF k \in DOMAIN r.counts THEN r.counts[k]
                 ELSE IF k \in DOMAIN r.durations
                   THEN scaledDurations(r)[k]
                 ELSE IF k \in DOMAIN requestEnv THEN requestEnv[k]
                 ELSE FixedValue(k))

\* C12's case: a payload for fields named as a fixed key, an environment
\* tag and a key that is both a duration and a counter, and a counter named
\* as a fixed key
C12_Witness ==
  /\ PayloadBuilt
  /\ DOMAIN r.fields = {"action", "host", "db"}
  /\ DOMAIN r.durations = {"db", "host"}
  /\ DOMAIN r.counts = {"db", "code"}
  /\ returned.payload["action"] = "x"
  /\ returned.payload["code"] = 3

----------------------------------------------------------------------------
(* Claims about the action name, checked under SpecAPI *)

\* the payload of a frame set that Finish handed to the socket
PayloadOf(handed) == handed.frames[3].snappy.json

----------------------------------------------------------------------------
(* Claims about the response-metrics capture, checked under SpecCapture *)

\* captureMetricsFn has called fn
Capturing == pc[Server] = "fn" \/ hist.ended # "no"

IsWriteHeader(call) == call.op = "WriteHeader"
IsBodyWrite(call) == call.op \in {"Write", "ReadFrom"}

\* the WriteHeader calls that returned, in order
WriteHeaderCalls == SelectSeq(hist.calls, IsWriteHeader)

\* every call the handler made was passed on to the wrapped writer, in order
AllForwarded ==
  /\ Len(resp.next) >= Len(hist.calls)
  /\ \A i \in 1..Len(hist.calls) :
       resp.next[i] = <<hist.calls[i].op, hist.calls[i].arg>>

RECURSIVE BytesSum(_)
BytesSum(calls) ==
  IF calls = <<>> THEN 0
  ELSE (IF IsBodyWrite(Head(calls)) THEN Head(calls).n ELSE 0)
         + BytesSum(Tail(calls))

\* C15: the capture starts at (200, 0, false); bytes_written is the sum of
\* the byte counts the wrapped writer returned for the Write and ReadFrom
\* calls so far; header_written is true exactly when a WriteHeader, Write or
\* ReadFrom call has returned; when the handler panics before any such call
\* the caller finds (200, 0, false).
C15_CaptureCounts ==
  Capturing =>
    /\ hist.calls = <<>> =>
         resp.m = [Code |-> 200, Written |-> 0, HeaderWritten |-> FALSE]
    /\ resp.m.Written = BytesSum(hist.calls)
    /\ resp.m.HeaderWritten <=> hist.calls # <<>>

\* C15's case: a Write that was cut short and a ReadFrom have returned, and
\* then the handler panicked
C15_Witness ==
  /\ hist.ended = "panicked"
  /\ Len(hist.calls) = 2
  /\ hist.calls[1] = [op |-> "Write", arg |-> BodyLength, n |-> 2]
  /\ hist.calls[2] = [op |-> "ReadFrom", arg |-> BodyLength, n |-> BodyLength]
  /\ resp.m.Written = 2 + BodyLength

----------------------------------------------------------------------------
(* Claims about Shutdown, checked under SpecAgent *)

ShutdownsEnded == {c \in hist.done : c.name = "Shutdown"}

\* the frame sets on the wire that are pings
IsPing(handed) == Len(handed.frames) = 5

\* C17: a Shutdown call on an agent that has a socket sends the ping
\* <<"", "ping", stream, "{}", meta>> with compression method 0 while it
\* holds the agent's mutex, returns whatever becomes of the ping (an error of
\* sending or of receiving, an answer of any number of frames and any
\* content), and leaves the socket closed.
C17_ShutdownPingsAndCloses ==
  /\ \A c \in ShutdownsEnded :
       c.socket0 # "nil" =>
         /\ c.result = "returned"
         /\ c.attempts = 1
         /\ c.socket = "closed"
  /\ \A k \in 1..Len(wire) :
       IsPing(wire[k]) =>
         /\ SubSeq(wire[k].frames, 1, 4) = <<"", "ping", a.stream, "{}">>
         /\ MetaOf(wire[k].frames).CompressionMethod = noCompression
  /\ \A g \in Goroutines :
       pc[g] \in {"ping_send", "ping_recv", "close"} => amutex = g

----------------------------------------------------------------------------
(* Claims about the meta-header, checked under SpecCodec *)

\* the number that eight bytes stand for, most significant byte first, when
\* it is below 2^31
EightBytes(data, from) ==
  IF \E k \in 0..3 : data[from + k] # 0 THEN -1
  ELSE ((data[from + 4] * 256 + data[from + 5]) * 256 + data[from + 6]) * 256
         + data[from + 7]

\* C18: packInfo returns 24 bytes: the tag 0xCABD, the compression method,
\* the version 1, the device 0, the time in whole milliseconds and the
\* sequence number, each with its most significant byte first; unpackInfo
\* gives these values back; unpackInfo returns nil for data of any other
\* length.
C18_MetaHeaderRoundTrip ==
  returned # Nothing =>
    /\ returned.op = "packInfo" =>
         /\ Len(returned.data) = 24
         /\ \A k \in 1..24 : returned.data[k] \in 0..255
         /\ SubSeq(returned.data, 1, 8) =
              <<202, 189, hist.compressionMethod, 1, 0, 0, 0, 0>>
         /\ EightBytes(returned.data, 9) = now \div 10
         /\ EightBytes(returned.data, 17) = hist.i
    /\ (returned.op = "unpackInfo" /\ Len(returned.data) = 24) =>
         returned.info =
           [nil |-> FALSE, Tag |-> 51901,
            CompressionMethod |-> hist.compressionMethod, Version |-> 1,
            DeviceNumber |-> 0, Timestamp |-> now \div 10,
            Sequence |-> hist.i]
    /\ (returned.op = "unpackInfo" /\ Len(returned.data) # 24) =>
         returned.info = NilInfo

\* C18's case: the header of a time that is not a whole millisecond and of a
\* sequence number of four bytes has been unpacked
C18_Witness ==
  /\ returned # Nothing
  /\ returned.op = "unpackInfo"
  /\ Len(returned.data) = 24
  /\ now = 2560 * 10 - 1
  /\ hist.i = 123456789
  /\ hist.compressionMethod = 255
  /\ SubSeq(returned.data, 13, 24) = <<0, 0, 9, 255, 0, 0, 0, 0, 7, 91, 205, 21>>

----------------------------------------------------------------------------
(* Claims about connection specs, checked under SpecNormalize *)

NormalizedTwice == returned # Nothing /\ returned.op = "twice"

\* C19: augmentConnectionSpec applied to its own result, with the same
\* default port, returns that result: for specs it completes, for specs of
\* protocol inproc and for specs the pattern does not match.
C19_NormalizeIdempotent ==
  NormalizedTwice => returned.twice = returned.once

\* C19's case: a bare host was completed with protocol and port, and the
\* completed spec went through augmentConnectionSpec again
C19_Witness ==
  /\ NormalizedTwice
  /\ hist.spec = <<"h">>
  /\ hist.defaultPort = 9604
  /\ returned.once =
       <<"t", "c", "p", ":", "/", "/", "h", ":", "9", "6", "0", "4">>

----------------------------------------------------------------------------
(* Claims about endpoint discovery, checked under SpecDiscovery *)

Constructed == returned # Nothing

\* the first available of the four sources of the endpoints string
ChosenEndpoints ==
  IF hist.options.Endpoints # <<>> THEN hist.options.Endpoints
  ELSE IF hist.env.LOGJAM_AGENT_ZMQ_ENDPOINTS # <<>>
    THEN hist.env.LOGJAM_AGENT_ZMQ_ENDPOINTS
  ELSE IF hist.env.LOGJAM_BROKER # <<>> THEN hist.env.LOGJAM_BROKER
  ELSE localhost

\* Options.Port, 9604 when unset
ChosenPort == IF hist.options.Port # 0 THEN hist.options.Port ELSE 9604

ElementsOf(s) == SelectSeq(Split(s, ","), LAMBDA e : e # <<>>)

\* C20: the endpoints of a new agent are the elements of the first
\* available of Options.Endpoints, LOGJAM_AGENT_ZMQ_ENDPOINTS, LOGJAM_BROKER
\* and "localhost", split on commas, each completed with protocol tcp and
\* with port Options.Port (9604 when unset) where it has none.
C20_EndpointDiscovery ==
  Constructed =>
    /\ Len(returned.endpoints) = Len(ElementsOf(ChosenEndpoints))
    /\ \A k \in 1..Len(returned.endpoints) :
         returned.endpoints[k] =
           augmentConnectionSpec(ElementsOf(ChosenEndpoints)[k], ChosenPort)

----------------------------------------------------------------------------
(* Claims about action names, checked under SpecActionNames *)

DefaultExtracted == returned # Nothing /\ returned.op = "default"
LegacyExtracted == returned # Nothing /\ returned.op = "legacy"

\* the segments of a path: what lies between its slashes, where not empty
SegmentsOf(path) ==
  LET slashes == {0, Len(path) + 1} \cup {k \in 1..Len(path) : path[k] = "/"}
      starts == {k \in slashes : k <= Len(path) /\ k + 1 \notin slashes}
      endOf(k) == CHOOSE e \in slashes : e > k /\ \A f \in slashes : f > k => e <= f
      RECURSIVE From(_)
      From(k) ==
        IF \A s \in starts : s < k THEN <<>>
        ELSE LET s == CHOOSE s \in starts : s >= k /\ \A t \in starts : t >= k => s <= t
             IN <<SubSeq(path, s + 1, endOf(s) - 1)>> \o From(endOf(s))
  IN From(0)

\* the class of one segment, character by character: underscores and dashes
\* go, and a character is in title case where it starts the segment or
\* follows a character that is neither letter nor digit
ClassOfSegment(seg) ==
  IF seg[1] \in Digits THEN <<"I", "d">>
  ELSE LET dashed(k) == seg[k] \in {"_", "-"}
           starts(k) ==
             k = 1 \/ ~(IsLower(seg[k - 1]) \/ IsUpper(seg[k - 1])
                          \/ seg[k - 1] \in Digits)
           RECURSIVE Chars(_)
           Chars(k) ==
             IF k > Len(seg) THEN <<>>
             ELSE (IF dashed(k) THEN <<>>
                   ELSE IF starts(k) THEN <<ToUpperChar(seg[k])>>
                   ELSE <<seg[k]>>) \o Chars(k + 1)
       IN Chars(1)

RECURSIVE JoinedWith(_, _, _)
JoinedWith(pieces, k, sep) ==
  IF k > Len(pieces) THEN <<>>
  ELSE (IF k = 1 THEN <<>> ELSE sep) \o pieces[k] \o JoinedWith(pieces, k + 1, sep)

\* C21: the default extractor returns Class, "#" and the method in lower
\* case; Class joins with "::" the classes of the non-empty segments of the
\* path (Id for a segment that begins with a digit, the title-cased pieces
\* between underscores and dashes otherwise) and is Unknown when the path
\* has no segment.
C21_DefaultActionName ==
  DefaultExtracted =>
    LET segments == SegmentsOf(hist.path)
        classes == [k \in 1..Len(segments) |-> ClassOfSegment(segments[k])]
    IN returned.name =
         (IF segments = <<>> THEN <<"U", "n", "k", "n", "o", "w", "n">>
          ELSE JoinedWith(classes, 1, <<":", ":">>))
           \o <<"#">> \o [k \in 1..Len(hist.method) |-> ToLowerChar(hist.method[k])]

\* C21's case: GET /users/123/friends has given Users::Id::Friends#get
C21_Witness ==
  /\ DefaultExtracted
  /\ hist.method = <<"G", "E", "T">>
  /\ hist.path = <<"/", "u", "s", "e", "r", "s", "/", "1", "2", "3", "/", "f", "r", "i", "e", "n", "d", "s">>
  /\ returned.name = <<"U", "s", "e", "r", "s", ":", ":", "I", "d", ":", ":", "F", "r", "i", "e", "n", "d", "s", "#", "g", "e", "t">>

\* a segment in title case, character by character
TitleCased(seg) ==
  [k \in 1..Len(seg) |->
     IF k = 1 \/ ~(IsLower(seg[k - 1]) \/ IsUpper(seg[k - 1])
                     \/ seg[k - 1] \in Digits \/ seg[k - 1] = "_")
       THEN ToUpperChar(seg[k]) ELSE seg[k]]

\* the pieces of the legacy extractor, with methodPiece after every v1
RECURSIVE LegacyPieces(_, _, _)
LegacyPieces(segments, k, methodPiece) ==
  IF k > Len(segments) THEN <<>>
  ELSE (IF segments[k][1] \in Digits THEN <<<<"b", "y", "_", "i", "d">>>>
        ELSE IF segments[k] = <<"v", "1">>
          THEN <<TitleCased(segments[k]), methodPiece>>
        ELSE <<TitleCased(segments[k])>>)
         \o LegacyPieces(segments, k + 1, methodPiece)

WithoutDashes(s) == SelectSeq(s, LAMBDA c : c # "-")

\* the name made of the pieces; unknownWhenEmpty says whether an empty
\* class, too, is Unknown
LegacyNameOf(pieces, unknownWhenEmpty) ==
  IF pieces = <<>> THEN <<"U", "n", "k", "n", "o", "w", "n", "#", "u", "n", "k", "n", "o", "w", "n">>
  ELSE LET n == Len(pieces)
           class == WithoutDashes(JoinedWith(SubSeq(pieces, 1, n - 1), 1,
                                             <<":", ":">>))
           suffix == [k \in 1..Len(pieces[n]) |->
                        IF pieces[n][k] = "-" THEN "_"
                        ELSE ToLowerChar(pieces[n][k])]
       IN (IF n = 1 \/ (unknownWhenEmpty /\ class = <<>>) THEN <<"U", "n", "k", "n", "o", "w", "n">>
           ELSE class) \o <<"#">> \o suffix

\* C22 as stated: the legacy extractor returns the name made of the pieces
\* with the method in upper case after every v1; Class is Unknown when only
\* one piece remains.
C22_LegacyUppercaseMethod ==
  LegacyExtracted =>
    returned.name =
      LegacyNameOf(LegacyPieces(SegmentsOf(hist.path), 1,
                                [k \in 1..Len(hist.method) |->
                                   ToUpperChar(hist.method[k])]),
                   FALSE)

\* C22, amended: the legacy extractor returns, without panicking, the name
\* made of the pieces with the method as it was given after every v1; Class
\* is Unknown whenever the joined class without its dashes is empty; a path
\* with no segments yields Unknown#unknown.
C22_LegacyMethodAsGiven ==
  LegacyExtracted =>
    returned.name =
      LegacyNameOf(LegacyPieces(SegmentsOf(hist.path), 1, hist.method), TRUE)

\* C22's case: Post /v1/users/123 has given V1::Post::Users#by_id
C22_Witness ==
  /\ LegacyExtracted
  /\ hist.method = <<"P", "o", "s", "t">>
  /\ hist.path = <<"/", "v", "1", "/", "u", "s", "e", "r", "s", "/", "1", "2", "3">>
  /\ returned.name = <<"V", "1", ":", ":", "P", "o", "s", "t", ":", ":", "U", "s", "e", "r", "s", "#", "b", "y", "_", "i", "d">>

----------------------------------------------------------------------------
(* Claims about the outgoing headers, checked under SpecHeaders *)

HeadersJustSet == outcome = "SetLogjamHeaders"

----------------------------------------------------------------------------
(* Claims about lines below the threshold, checked under Spec *)

\* the severity of the last Log call, brought into DEBUG..FATAL
LastSeverity ==
  IF hist.severity < 0 THEN 0 ELSE IF hist.severity > 4 THEN 4
  ELSE hist.severity

BelowLogLevel == hist.n > 0 /\ LastSeverity < a.LogLevel

\* C24: a Log call whose severity, brought into DEBUG..FATAL, is below the
\* agent's LogLevel leaves the log lines and the byte count as they were,
\* and leaves the severity of the Request at the higher of its severity
\* before the call and the severity of the call.
C24_BelowLogLevelOnlyRaisesSeverity ==
  BelowLogLevel =>
    /\ r.logLines = hist.before.logLines
    /\ r.logLinesBytesCount = hist.before.logLinesBytesCount
    /\ r.severity >= hist.before.severity
    /\ r.severity >= LastSeverity
    /\ r.severity \in {hist.before.severity, LastSeverity}

\* C24's case: after an earlier call, a WARN line below the LogLevel ERROR
\* has raised the severity from INFO to WARN
C24_Witness ==
  /\ BelowLogLevel
  /\ a.LogLevel = 3
  /\ hist.severity = 2
  /\ hist.before.severity = 1
  /\ hist.n > 1
  /\ r.logLines = <<>>
  /\ r.severity = 2

----------------------------------------------------------------------------
(* Claims about the calls that take no mutex, checked under SpecRace *)

InChangeAction(g) == pc[g] \in {"action_write", "header_write"}

\* between Lock and Unlock of a mutator
InGuardedBody(g) ==
  pc[g] \in {"log_severity", "log_count", "log_append", "count_read",
             "count_write", "unlock"}

\* C25: a goroutine that is inside ChangeAction holds the Request's mutex,
\* and no other goroutine is inside ChangeAction or inside the body of a
\* guarded operation of the same Request at that time.
C25_ChangeActionExclusive ==
  \A g \in Goroutines :
    InChangeAction(g) =>
      /\ mutex = g
      /\ \A h \in Goroutines \ {g} : ~InChangeAction(h) /\ ~InGuardedBody(h)

BuildingPayload(g) ==
  pc[g] \in {"payload_fixed", "payload_lines", "payload_exceptions",
             "payload_durations", "payload_counts", "payload_fields"}

\* at a statement of a mutator that writes to the Request
AtMutatorWrite(g) ==
  pc[g] \in {"log_severity", "log_count", "log_append", "count_write"}

\* C26: while Finish builds the payload no other goroutine is at a write of
\* a mutator to the same Request, and the payload that Finish has built is
\* the payload of one state of the Request.
C26_PayloadIsSnapshot ==
  /\ \A g, h \in Goroutines :
       BuildingPayload(g) /\ h # g => ~AtMutatorWrite(h)
  /\ returned # Nothing =>
       \E k \in 1..Len(returned.seen) :
         returned.payload = logjamPayload(returned.seen[k], returned.code)

----------------------------------------------------------------------------
(* Claims about MeasureDuration, checked under SpecMeasure *)

\* C27: a goroutine that is running a thunk of MeasureDuration does not hold
\* the Request's mutex, and neither does a goroutine that waits for the
\* agent's mutex; a goroutine that waits for a mutex never waits for itself,
\* and the holder is inside a body that takes no other mutex (no deadlock);
\* when all calls have ended, every timer is the sum of the values passed to
\* AddDuration and of the time each thunk took, counted once, whether the
\* thunk returned or panicked, so that a timer is never less than the time
\* the thunks of the calls took.
C27_ThunkOutsideMutex ==
  /\ \A g \in Goroutines :
       /\ pc[g] = "thunk" => mutex # g
       /\ pc[g] = "agent_lock" => mutex # g
       /\ (pc[g] = "lock" /\ mutex # "free") =>
            /\ mutex # g
            /\ pc[mutex] \in {"duration_read", "duration_write", "unlock"}
       /\ (pc[g] = "agent_lock" /\ amutex # "free") =>
            /\ amutex # g
            /\ pc[amutex] = "agent_send"
  /\ (\A g \in Goroutines : pc[g] = "idle") =>
       /\ r.durations = added.durations
       /\ hist.n > 0 =>
            /\ "db" \in DOMAIN r.durations
            /\ \E dt \in ThunkTimes : r.durations["db"] >= dt * hist.n

\* C27's case: all calls have ended, a thunk has panicked, a call to
\* AddDuration had to wait for the mutex, and thunks have added to the timer
\* that measures them
C27_Witness ==
  /\ \A g \in Goroutines : pc[g] = "idle"
  /\ hist.n = MaxMeasures
  /\ hist.panics >= 1
  /\ added.contended
  /\ "db" \in DOMAIN r.durations
  /\ r.durations["db"] >= 35

----------------------------------------------------------------------------
(* Claims about the agent's socket, checked under SpecAgent *)

\* the sends that found no socket and left one stored
SocketCreators ==
  {c \in SendsEnded : c.socket0 = "nil" /\ c.socket # "nil"}

\* C28: an agent holds at most one socket: a new agent has none; a socket is
\* stored at most once, by a send that found none, whatever the interleaving
\* of the sends; a send that goes on to the hand-over has a socket, and a
\* send that found a socket leaves that one in the agent.
C28_AtMostOneSocket ==
  /\ hist.n = 0 => a.socket = "nil"
  /\ hist.created <= 1
  /\ hist.created = 0 <=> a.socket = "nil"
  /\ Cardinality(SocketCreators) <= 1
  /\ \A g \in Goroutines :
       (pc[g] \in {"sequence_read", "sequence_write", "send"}
          /\ local[g].name = "sendMessage") =>
         /\ a.socket # "nil"
         /\ amutex = g
  /\ \A c \in SendsEnded :
       /\ c.result = "returned" => c.socket # "nil"
       /\ c.socket0 # "nil" => (c.result = "returned" /\ c.socket = c.socket0)

\* C28's case: two sends were called at the same time on a new agent, the
\* second while the first held the mutex; the first created the socket and
\* the second found it, and both handed their message over
C28_Witness ==
  /\ hist.n = 2
  /\ hist.contended
  /\ hist.created = 1
  /\ Len(wire) = 2
  /\ \E c, d \in SendsEnded :
       /\ c.result = "returned" /\ c.socket0 = "nil" /\ c.socket = "open"
       /\ d.result = "returned" /\ d.socket0 = "open" /\ d.socket = "open"

\* the positions of a call at which it works on the agent's socket: the
\* test and the set-up, the hand-over of a message, the ping and its answer,
\* the close
SocketOperations == {"setup", "send", "ping_send", "ping_recv", "close"}

\* C29: the operations on the agent's socket exclude one another: a
\* goroutine that is at one of them holds the agent's mutex, so that no two
\* goroutines are at socket operations at the same time, whatever the
\* interleaving of the sends and of Shutdown.
C29_SocketOperationsExclusive ==
  /\ \A g \in Goroutines : pc[g] \in SocketOperations => amutex = g
  /\ \A g, h \in Goroutines :
       (g # h /\ pc[g] \in SocketOperations) => pc[h] \notin SocketOperations

\* C29's case: Shutdown waits for the answer to its ping while a send of
\* another goroutine waits for the mutex, after a send has set the socket up
C29_Witness ==
  \E g, h \in Goroutines :
    /\ pc[g] = "ping_recv"
    /\ pc[h] = "agent_lock"
    /\ local[h].name = "sendMessage"
    /\ a.socket = "open"
    /\ hist.created = 1

----------------------------------------------------------------------------
(* Claims about the integer options, checked under SpecTunables *)

\* the integer options, the environment variable and the built-in default
\* of each
Tunables ==
  {[option |-> "Port", name |-> "LOGJAM_AGENT_ZMQ_PORT", default |-> 9604],
   [option |-> "Linger", name |-> "LOGJAM_AGENT_ZMQ_LINGER", default |-> 1000],
   [option |-> "Sndhwm", name |-> "LOGJAM_AGENT_ZMQ_SND_HWM", default |-> 1000],
   [option |-> "Rcvhwm", name |-> "LOGJAM_AGENT_ZMQ_RCV_HWM", default |-> 1000],
   [option |-> "Sndtimeo", name |-> "LOGJAM_AGENT_ZMQ_SND_TIMEO",
    default |-> 5000],
   [option |-> "Rcvtimeo", name |-> "LOGJAM_AGENT_ZMQ_RCV_TIMEO",
    default |-> 5000]}

\* s is the decimal notation of an integer
ValidInteger(s) ==
  LET body == IF s # <<>> /\ s[1] \in {"+", "-"} THEN Tail(s) ELSE s
  IN body # <<>> /\ \A k \in 1..Len(body) : body[k] \in Digits

\* C30: every integer option keeps a value that is not zero; where it is
\* zero it takes the integer its environment variable holds, and the
\* built-in default where the variable is unset or holds no valid integer.
C30_IntegerTunables ==
  returned # Nothing =>
    \A t \in Tunables :
      returned[t.option] =
        IF hist.options[t.option] # 0 THEN hist.options[t.option]
        ELSE IF ValidInteger(hist.env[t.name]) THEN Atoi(hist.env[t.name]).x
        ELSE t.default

----------------------------------------------------------------------------
(* Claims about Finish, checked under SpecAPI *)

\* a field of the Request holds a value that JSON cannot encode
HoldsUnencodable(req) ==
  \E k \in DOMAIN req.fields : req.fields[k] = "chan"

\* C31: a call of Finish on a Request whose payload JSON cannot encode
\* writes one error to the agent's Logger and returns without a panic; it
\* hands nothing to the transport, leaves the agent without a socket where
\* it had none, and leaves the sequence number as it was.
C31_EncodingFailureDropsPayload ==
  [][(hist'.finished = hist.finished + 1 /\ HoldsUnencodable(r)) =>
       /\ a'.Logger = a.Logger + 1
       /\ outcome' = "ok"
       /\ wire' = wire
       /\ a'.socket = a.socket
       /\ a'.sequence = a.sequence]_vars

\* C31's case: Finish has returned on a new agent for a Request with a field
\* that JSON cannot encode: an error is in the Logger, the agent has no
\* socket and nothing was handed over
C31_Witness ==
  /\ hist.finished >= 1
  /\ outcome = "ok"
  /\ HoldsUnencodable(r)
  /\ HoldsUnencodable(hist.before)
  /\ a.Logger = 1
  /\ a.socket = "nil"
  /\ a.sequence = 0
  /\ wire = <<>>

----------------------------------------------------------------------------
(* Claims about the form of action names, checked under SpecActionNames *)

\* name is Class(::Class)*#suffix with no empty Class and no empty suffix:
\* one "#", something after it, and before it a class that neither starts
\* nor ends with a colon and has no more than two colons in a row
WellFormedActionName(name) ==
  LET hashes == {k \in 1..Len(name) : name[k] = "#"}
  IN /\ Cardinality(hashes) = 1
     /\ LET h == CHOOSE k \in hashes : TRUE
            class == SubSeq(name, 1, h - 1)
        IN /\ h < Len(name)
           /\ class # <<>>
           /\ class[1] # ":"
           /\ class[Len(class)] # ":"
           /\ \A k \in 1..(Len(class) - 2) :
                ~(class[k] = ":" /\ class[k + 1] = ":" /\ class[k + 2] = ":")

\* C32: whatever the method and the escaped path, the name the default
\* extractor returns and the name the legacy extractor returns are of the
\* form Class(::Class)*#suffix, with every Class and the suffix non-empty,
\* also where a segment of the path has only dashes or underscores.
C32_WellFormedActionNames ==
  returned # Nothing => WellFormedActionName(returned.name)

----------------------------------------------------------------------------
(* Claims about the hooks under concurrency, checked under SpecHooks *)

\* C33: when two goroutines call WriteHeader of the wrapped writer, the code
\* that is captured is the code of the call that reached the wrapped writer
\* first, whatever the interleaving.
C33_CapturedCodeIsFirstForwarded ==
  resp.m.HeaderWritten => resp.m.Code = resp.next[1][2]

----------------------------------------------------------------------------
(* Claims about repeated calls of Finish, checked under SpecAPI *)

\* the request_id of the payload in the k-th frame set handed over
RequestIdOf(w, k) == w[k].frames[3].snappy.json["request_id"]

\* a call of Finish has handed one more message over, with the request_id
\* of the Request, and the sequence number is one more
OneMoreMessage ==
  /\ Len(wire') = Len(wire) + 1
  /\ a'.sequence = a.sequence + 1
  /\ RequestIdOf(wire', Len(wire')) = r.uuid

\* a call of Finish has handed nothing over, and the sequence number is as
\* it was
NoMoreMessage == wire' = wire /\ a'.sequence = a.sequence

\* C34 as stated: every call of Finish, a second call on the same Request
\* included, builds a payload with the request_id of the Request, hands one
\* more message to the transport and advances the sequence number by one.
C34_EveryFinishSends ==
  [][hist'.finished = hist.finished + 1 => OneMoreMessage]_vars

\* C34, amended: Finish has no guard against a second call: every call of
\* Finish whose payload JSON can encode and that does not end in the panic of
\* the socket set-up, a second call on the same Request included, hands one
\* more message with the request_id of the Request to the transport and
\* advances the sequence number by one; a call whose payload JSON cannot
\* encode and a call that ends in the panic of the set-up (the agent has no
\* socket then) hand nothing over and leave the sequence number as it was.
C34_EveryEncodableFinishSends ==
  [][hist'.finished = hist.finished + 1 =>
       IF HoldsUnencodable(r) THEN NoMoreMessage /\ outcome' = "ok"
       ELSE IF outcome' = "panic" THEN NoMoreMessage /\ a.socket = "nil"
       ELSE OneMoreMessage]_vars

\* C34's case: Finish was called a second time on the Request, and two
\* messages with its request_id were handed over, numbered 1 and 2
C34_Witness ==
  /\ hist.finished = 2
  /\ Len(wire) = 2
  /\ RequestIdOf(wire, 1) = r.uuid
  /\ RequestIdOf(wire, 2) = r.uuid
  /\ a.sequence = 2
  /\ outcome = "ok"

----------------------------------------------------------------------------
(* Claims about the list of endpoints, checked under SpecDiscovery *)

\* C35: whatever the options and the environment, the list of endpoints of
\* a new agent is not empty, so that rand.Intn(len(a.endpoints)) of the
\* first send is defined.
C35_EndpointsNotEmpty ==
  returned # Nothing => Len(returned.endpoints) > 0

====
